---- MODULE Spec2Model ----
(***************************************************************************)
(* Model of the session event-logging core of aop (src/aop/aop.py): one    *)
(* Session object, the files it keeps under its storage root (.aopl line   *)
(* log, .aol JSON parameter log, .aop XML protocol) and the public         *)
(* operations of the Session class, each as one action.                    *)
(***************************************************************************)
EXTENDS Integers, Sequences, FiniteSets, TLC

VARIABLES
    s,       \* the Session object's attributes (self.__dict__), name -> value
    fs,      \* the storage root: observation id -> the session directory
    op,      \* the method called most recently ("" before the first call)
    result,  \* outcome of that call: "ok" or the exception it raised
    calls,   \* number of calls made on the object so far
    scen,    \* how many calls of Scenario the calls so far are, each having
             \* returned without error; -1 once they are not
    loaded   \* what the last call of parse_session() returned: the
             \* attributes of the new Session object, or NoSession

vars == <<s, fs, op, result, calls, scen, loaded>>

----------------------------------------------------------------------------
(* Bounds of the model.                                                    *)

\* number of calls made on the Session object
MaxCalls == 3
\* number of calls made when only start, interrupt, resume, abort and end
\* are called
MaxLifecycleCalls == 5
\* number of distinct values generate_observation_id() can return: one for
\* every call of a run, so that an id no directory has yet is always left
NumIds == IF MaxCalls > MaxLifecycleCalls THEN MaxCalls ELSE MaxLifecycleCalls

----------------------------------------------------------------------------
(* Python values.  A value carries its type and its text (what str() of    *)
(* the value gives); conversions change the type and keep the text.        *)

None == [t |-> "none", v |-> "None"]
True == [t |-> "bool", v |-> "True"]
False == [t |-> "bool", v |-> "False"]
Str(x) == [t |-> "str", v |-> x]
IntVal(x) == [t |-> "int", v |-> x]
FloatVal(x) == [t |-> "float", v |-> x]

\* str(value), as written to the text of an XML element and to the preamble
PyStr(val) == [t |-> "str", v |-> val.v]

\* truth value of a Python object in "if x" / "if not x"
Truthy(val) ==
    CASE val.t = "bool" -> val.v = "True"
      [] val.t = "none" -> FALSE
      [] val.t = "str" -> val.v # ""
      [] val.t = "int" -> val.v # "0"
      [] val.t = "float" -> val.v # "0.0"
      [] OTHER -> TRUE

----------------------------------------------------------------------------
(* Time arguments and identifiers.                                         *)

IsoTime == "2024-01-01T00:00:00"
BadTime == "garbage"
Times == {"current", BadTime}

\* current_jd(time): the Julian Date of "current" or of an ISO 8601 string;
\* raises InvalidTimeStringError when the string is not a time.
current_jd(time) ==
    IF time = "current" THEN [err |-> "ok", v |-> "jd(now)"]
    ELSE IF time = IsoTime THEN [err |-> "ok", v |-> "jd(" \o time \o ")"]
    ELSE [err |-> "InvalidTimeStringError", v |-> ""]

\* create_entry_id(time): timestamp of "current" or of the given string, plus
\* a uuid4 part; raises InvalidTimeStringError when the string does not parse.
create_entry_id(time) ==
    IF time = "current" THEN [err |-> "ok", v |-> "id(now)"]
    ELSE IF time = IsoTime THEN [err |-> "ok", v |-> "id(" \o time \o ")"]
    ELSE [err |-> "InvalidTimeStringError", v |-> ""]

\* the values generate_observation_id() can return, in the order of their
\* timestamps
ObsId(i) == "obs" \o ToString(i)
SessionIds == {ObsId(i) : i \in 1..NumIds}

----------------------------------------------------------------------------
(* The Session object.                                                     *)

Filepath == "root"
Observer == "me"

\* the attributes of a Session, in the order __init__ creates them
AttrNames == {"started", "obsID", "filepath", "observer", "state",
              "interrupted", "conditionDescription", "temp", "pressure",
              "humidity"}

\* no Session object
NoSession == [none |-> TRUE]

\* Session(filepath, observer=...): the object after construction
SessionInit ==
    [started |-> False, obsID |-> None, filepath |-> Str(Filepath),
     observer |-> Str(Observer), state |-> None, interrupted |-> False,
     conditionDescription |-> None, temp |-> None, pressure |-> None,
     humidity |-> None]

----------------------------------------------------------------------------
(* Files.  A file that does not exist has ex = FALSE.                      *)

NoAopl == [ex |-> FALSE, pre |-> <<>>, ents |-> <<>>]
NoAol == [ex |-> FALSE, param |-> <<>>]
NoAop == [ex |-> FALSE, kids |-> <<>>]
NoDir == [dir |-> FALSE, aopl |-> NoAopl, aol |-> NoAol, aop |-> NoAop]

\* files of a call that cannot be opened (PermissionError); at most one
Denies == {{}, {"aopl"}, {"aol"}, {"aop"}}

\* the state a call works on: the object, the files, the exception raised
St(ss, ff) == [s |-> ss, fs |-> ff, res |-> "ok"]
Raise(st, e) == [st EXCEPT !.res = e]

\* the observation id the object holds, as a directory name
Sid(ss) == ss.obsID.v

\* the preamble of the .aopl: every attribute but state and interrupted
Preamble(ss) ==
    [k \in AttrNames \ {"state", "interrupted"} |-> PyStr(ss[k])]

\* the <parameters> element: one sub-element per attribute, text = str(value)
ParametersNode(ss) ==
    [tag |-> "parameters", time |-> "", id |-> "",
     body |-> [k \in AttrNames |-> PyStr(ss[k])]]

\* an entry element of the protocol, with time and id attributes
EntryNode(tag, jd, id, body) ==
    [tag |-> tag, time |-> jd, id |-> id, body |-> body]

\* one line of the .aopl: (id) jd -> opcode argument
Line(id, jd, opcode, argument) ==
    [id |-> id, jd |-> jd, opcode |-> opcode, arg |-> argument]

----------------------------------------------------------------------------
(* Writing the files.  Each step takes the state of the call and returns   *)
(* it unchanged when an exception is already propagating.                  *)

\* the directory of the observation the object points at
DirOf(st) == st.fs[Sid(st.s)]

\* Session.__write_to_aop: append one line to the .aopl.  open(..., "at")
\* fails on a directory that is not there whatever the access rights, and
\* creates a missing file before the line is formatted.
WriteToAop(st, opcode, argument, time, deny) ==
    IF st.res # "ok" THEN st
    ELSE IF ~DirOf(st).dir THEN Raise(st, "FileNotFoundError")
    ELSE IF "aopl" \in deny THEN Raise(st, "PermissionError")
    ELSE LET sid == Sid(st.s)
             opened == [st EXCEPT !.fs[sid].aopl.ex = TRUE]
             id == create_entry_id(time)
             jd == current_jd(time)
         IN  IF id.err # "ok" THEN Raise(opened, id.err)
             ELSE IF jd.err # "ok" THEN Raise(opened, jd.err)
             ELSE [opened EXCEPT !.fs[sid].aopl.ents =
                       Append(@, Line(id.v, jd.v, opcode, argument))]

\* __write_to_aol as it would be if it did not read the log first: the log
\* written holds the one key and nothing of what it held before
WriteToAol_forgetting(st, parameter, assigned_value, deny) ==
    IF st.res # "ok" THEN st
    ELSE IF ~DirOf(st).aol.ex THEN Raise(st, "FileNotFoundError")
    ELSE IF "aol" \in deny THEN Raise(st, "PermissionError")
    ELSE [st EXCEPT !.fs[Sid(st.s)].aol.param =
             [k \in AttrNames |->
                 IF k = parameter THEN assigned_value ELSE None]]

\* Session.__write_to_aol: read the JSON parameter log, set one key, write
\* the log back.
WriteToAol(st, parameter, assigned_value, deny) ==
    IF st.res # "ok" THEN st
    ELSE IF ~DirOf(st).aol.ex THEN Raise(st, "FileNotFoundError")
    ELSE IF "aol" \in deny THEN Raise(st, "PermissionError")
    ELSE [st EXCEPT !.fs[Sid(st.s)].aol.param[parameter] = assigned_value]

\* the children of the root without the <parameters> elements
RemoveParameters(kids) == SelectSeq(kids, LAMBDA n : n.tag # "parameters")

\* the v2.x part of an operation as it would be if the new sub-element were
\* inserted as the first child of the root instead of the last
XmlAppend_inserting(st, tag, body, time, refresh, deny) ==
    IF st.res # "ok" THEN st
    ELSE IF ~DirOf(st).aop.ex THEN Raise(st, "FileNotFoundError")
    ELSE IF "aop" \in deny THEN Raise(st, "PermissionError")
    ELSE LET sid == Sid(st.s)
             jd == current_jd(time)
             id == create_entry_id("current")
             added == <<EntryNode(tag, jd.v, id.v, body)>>
                      \o DirOf(st).aop.kids
             kids == IF refresh
                     THEN Append(RemoveParameters(added),
                                 ParametersNode(st.s))
                     ELSE added
         IN  IF jd.err # "ok" THEN Raise(st, jd.err)
             ELSE [st EXCEPT !.fs[sid].aop.kids = kids]

\* The v2.x part of an operation: parse the .aop, add one sub-element to the
\* root, replace the <parameters> element when the operation changed an
\* attribute (refresh), and overwrite the .aop.  The entry id is made from
\* the current time.
XmlAppend(st, tag, body, time, refresh, deny) ==
    IF st.res # "ok" THEN st
    ELSE IF ~DirOf(st).aop.ex THEN Raise(st, "FileNotFoundError")
    ELSE IF "aop" \in deny THEN Raise(st, "PermissionError")
    ELSE LET sid == Sid(st.s)
             jd == current_jd(time)
             id == create_entry_id("current")
             added == Append(DirOf(st).aop.kids,
                             EntryNode(tag, jd.v, id.v, body))
             kids == IF refresh
                     THEN Append(RemoveParameters(added),
                                 ParametersNode(st.s))
                     ELSE added
         IN  IF jd.err # "ok" THEN Raise(st, jd.err)
             ELSE [st EXCEPT !.fs[sid].aop.kids = kids]

\* an element whose only content is its text
Text(val) == [text |-> PyStr(val)]
\* an element without content
Empty == [x \in {} |-> None]

----------------------------------------------------------------------------
(* Session.start                                                           *)

\* the v1.x part of start: create the .aopl with the preamble and the
\* SESSION STARTED line, then dump the attributes to the .aol
StartLegacy(st, time, deny) ==
    LET sid == Sid(st.s)
        id == create_entry_id("current")
        jd == current_jd(time)
        pre == [st EXCEPT !.fs[sid].aopl =
                   [ex |-> TRUE, pre |-> Preamble(st.s), ents |-> <<>>]]
        aopl == IF "aopl" \in deny THEN Raise(st, "PermissionError")
                ELSE IF jd.err # "ok" THEN Raise(pre, jd.err)
                ELSE [pre EXCEPT !.fs[sid].aopl.ents =
                         <<Line(id.v, jd.v, "SEEV",
                                <<"SESSION", sid, "STARTED">>)>>]
    IN  IF aopl.res # "ok" THEN aopl
        ELSE IF "aol" \in deny THEN Raise(aopl, "PermissionError")
        ELSE [aopl EXCEPT !.fs[sid].aol = [ex |-> TRUE, param |-> st.s]]

\* the v2.x part of start: a root with <parameters> and <start>
StartXml(st, time, deny) ==
    IF st.res # "ok" THEN st
    ELSE LET sid == Sid(st.s)
             jd == current_jd(time)
             id == create_entry_id("current")
         IN  IF jd.err # "ok" THEN Raise(st, jd.err)
             ELSE IF "aop" \in deny THEN Raise(st, "PermissionError")
             ELSE [st EXCEPT !.fs[sid].aop =
                      [ex |-> TRUE,
                       kids |-> <<ParametersNode(st.s),
                                  EntryNode("start", jd.v, id.v, Empty)>>]]

\* start as it would be without the checks for files that exist
start_overwriting(ss, ff, newId, time, deny) ==
    LET s1 == [ss EXCEPT !.state = Str("running"), !.started = True,
                         !.obsID = Str(newId)]
        made == St(s1, [ff EXCEPT ![newId].dir = TRUE])
    IN  StartXml(StartLegacy(made, time, deny), time, deny)

\* Session.start(time) when generate_observation_id() returns newId
start(ss, ff, newId, time, deny) ==
    LET s1 == [ss EXCEPT !.state = Str("running"), !.started = True,
                         !.obsID = Str(newId)]
        made == St(s1, [ff EXCEPT ![newId].dir = TRUE])
        d == ff[newId]
    IN  IF d.aop.ex THEN Raise(made, "AopFileAlreadyExistsError")
        ELSE IF d.aopl.ex THEN Raise(made, "AopFileAlreadyExistsError")
        ELSE IF d.aol.ex THEN Raise(made, "AolFileAlreadyExistsError")
        ELSE StartXml(StartLegacy(made, time, deny), time, deny)

\* the calls of the scenario: start, interrupt, resume, interrupt, end
Scenario == <<"start", "interrupt", "resume", "interrupt", "end">>

\* the call of method leaves the object and the files as in st and returns
\* or raises st.res
Returns(method, st) ==
    /\ s' = st.s
    /\ fs' = st.fs
    /\ op' = method
    /\ result' = st.res
    /\ calls' = calls + 1
    /\ scen' = IF /\ scen = calls
                 /\ calls < Len(Scenario)
                 /\ Scenario[calls + 1] = method
                 /\ st.res = "ok"
              THEN scen + 1
              ELSE -1
    /\ loaded' = loaded

Start(newId, time, deny) == Returns("start", start(s, fs, newId, time, deny))

----------------------------------------------------------------------------
(* Session.interrupt and Session.resume                                    *)

Running == Str("running")

\* Session.interrupt(time)
interrupt(ss, ff, time, deny) ==
    IF ~Truthy(ss.started) THEN Raise(St(ss, ff), "NameError")
    ELSE IF ss.state # Running THEN Raise(St(ss, ff), "NotInterruptableError")
    ELSE IF Truthy(ss.interrupted)
    THEN Raise(St(ss, ff), "AlreadyInterruptedError")
    ELSE LET st == St([ss EXCEPT !.interrupted = True], ff)
             v1 == WriteToAol(
                       WriteToAop(st, "SEEV", <<"SESSION", "INTERRUPTED">>,
                                  time, deny),
                       "interrupted", True, deny)
         IN  XmlAppend(v1, "interrupt", Empty, time, TRUE, deny)

Interrupt(time, deny) == Returns("interrupt", interrupt(s, fs, time, deny))

\* Session.resume(time)
resume(ss, ff, time, deny) ==
    IF ~Truthy(ss.started) THEN Raise(St(ss, ff), "NameError")
    ELSE IF ss.state # Running THEN Raise(St(ss, ff), "NotResumableError")
    ELSE IF ~Truthy(ss.interrupted)
    THEN Raise(St(ss, ff), "NotInterruptedError")
    ELSE LET st == St([ss EXCEPT !.interrupted = False], ff)
             v1 == WriteToAol(
                       WriteToAop(st, "SEEV", <<"SESSION", "RESUMED">>,
                                  time, deny),
                       "interrupted", False, deny)
         IN  XmlAppend(v1, "resume", Empty, time, TRUE, deny)

Resume(time, deny) == Returns("resume", resume(s, fs, time, deny))

----------------------------------------------------------------------------
(* Session.abort and Session.end                                           *)

Reasons == {"clouds"}

\* Session.abort(reason, time)
abort(ss, ff, reason, time, deny) ==
    IF ~Truthy(ss.started) THEN Raise(St(ss, ff), "NameError")
    ELSE IF ss.state # Running THEN Raise(St(ss, ff), "NotAbortableError")
    ELSE LET st == St([ss EXCEPT !.state = Str("aborted")], ff)
             v1 == WriteToAol(
                       WriteToAop(st, "SEEV",
                                  <<reason, ": SESSION", Sid(ss), "ABORTED">>,
                                  time, deny),
                       "state", Str("aborted"), deny)
         IN  XmlAppend(v1, "abort", Text(Str(reason)), time, TRUE, deny)

Abort(reason, time, deny) == Returns("abort", abort(s, fs, reason, time, deny))

\* end() as it would be if it also reset the interrupted flag
end_clearing_interrupted(ss, ff, time, deny) ==
    IF ~Truthy(ss.started) THEN Raise(St(ss, ff), "NameError")
    ELSE IF ss.state # Running THEN Raise(St(ss, ff), "NotEndableError")
    ELSE LET st == St([ss EXCEPT !.state = Str("ended"),
                                 !.interrupted = False], ff)
             v1 == WriteToAol(
                       WriteToAop(st, "SEEV",
                                  <<"SESSION", Sid(ss), "ENDED">>,
                                  time, deny),
                       "state", Str("ended"), deny)
         IN  XmlAppend(v1, "end", Empty, time, TRUE, deny)

\* Session.end(time)
end(ss, ff, time, deny) ==
    IF ~Truthy(ss.started) THEN Raise(St(ss, ff), "NameError")
    ELSE IF ss.state # Running THEN Raise(St(ss, ff), "NotEndableError")
    ELSE LET st == St([ss EXCEPT !.state = Str("ended")], ff)
             v1 == WriteToAol(
                       WriteToAop(st, "SEEV",
                                  <<"SESSION", Sid(ss), "ENDED">>,
                                  time, deny),
                       "state", Str("ended"), deny)
         IN  XmlAppend(v1, "end", Empty, time, TRUE, deny)

End(time, deny) == Returns("end", end(s, fs, time, deny))

----------------------------------------------------------------------------
(* Session.comment and Session.issue                                       *)

Comments == {"seeing is good"}
Severities == {"potential", "m", "critical"}
Messages == {"dew on lens"}

\* the check as it would be if an interrupted session were not "running"
StateCheck_refusing_interrupted(ss) ==
    IF ~Truthy(ss.started) THEN "NameError"
    ELSE IF ss.state # Str("running") THEN "SessionStateError"
    ELSE IF Truthy(ss.interrupted) THEN "SessionStateError"
    ELSE "ok"

\* the check every logging operation starts with; "ok" when it passes
StateCheck(ss) ==
    IF ~Truthy(ss.started) THEN "NameError"
    ELSE IF ss.state # Running THEN "SessionStateError"
    ELSE "ok"

\* comment() as it would be without its v1.x part, the line of the .aopl
comment_protocol_only(ss, ff, text, time, deny) ==
    IF StateCheck(ss) # "ok" THEN Raise(St(ss, ff), StateCheck(ss))
    ELSE XmlAppend(St(ss, ff), "comment", Text(Str(text)), time, FALSE, deny)

\* Session.comment(comment, time)
comment(ss, ff, text, time, deny) ==
    IF StateCheck(ss) # "ok" THEN Raise(St(ss, ff), StateCheck(ss))
    ELSE XmlAppend(WriteToAop(St(ss, ff), "OBSC", <<text>>, time, deny),
                   "comment", Text(Str(text)), time, FALSE, deny)

Comment(text, time, deny) == Returns("comment", comment(s, fs, text, time, deny))

\* the words the .aopl line of an issue starts with; "" for a severity that
\* is not recognized
SeverityWords(severity) ==
    IF severity \in {"potential", "p"} THEN "Potential Issue:"
    ELSE IF severity \in {"normal", "n"} THEN "Normal Issue:"
    ELSE IF severity \in {"major", "m"} THEN "Major Issue:"
    ELSE ""

\* issue as it would be if its v1.x part wrote the line before the severity
\* is checked
issue_writing_first(ss, ff, severity, message, time, deny) ==
    IF StateCheck(ss) # "ok" THEN Raise(St(ss, ff), StateCheck(ss))
    ELSE LET v1 == WriteToAop(St(ss, ff), "ISSU",
                              <<SeverityWords(severity), message>>,
                              time, deny)
         IN  IF severity \in {"potential", "p", "normal", "n", "major", "m"}
             THEN XmlAppend(v1, "issue",
                            [severity |-> Str(severity),
                             description |-> PyStr(Str(message))],
                            time, FALSE, deny)
             ELSE IF v1.res # "ok" THEN v1 ELSE Raise(v1, "ValueError")

\* Session.issue(severity, message, time)
issue(ss, ff, severity, message, time, deny) ==
    IF StateCheck(ss) # "ok" THEN Raise(St(ss, ff), StateCheck(ss))
    ELSE IF SeverityWords(severity) = ""
    THEN Raise(St(ss, ff), "ValueError")
    ELSE LET v1 == WriteToAop(St(ss, ff), "ISSU",
                              <<SeverityWords(severity), message>>,
                              time, deny)
         IN  IF severity \in {"potential", "p", "normal", "n", "major", "m"}
             THEN XmlAppend(v1, "issue",
                            [severity |-> Str(severity),
                             description |-> PyStr(Str(message))],
                            time, FALSE, deny)
             ELSE IF v1.res # "ok" THEN v1 ELSE Raise(v1, "ValueError")

Issue(severity, message, time, deny) ==
    Returns("issue", issue(s, fs, severity, message, time, deny))

----------------------------------------------------------------------------
(* Session.point_to_name and Session.point_to_coords                       *)

\* a Python list of strings
List(items) == [t |-> "list", v |-> "[...]", items |-> items]

TargetInputs == {List(<<>>), List(<<"M31">>), List(<<"M31", "M42">>),
                 [t |-> "str", v |-> "M31", items |-> <<>>]}

\* the targets joined with ", "
RECURSIVE JoinTargets(_)
JoinTargets(items) ==
    IF items = <<>> THEN ""
    ELSE IF Len(items) = 1 THEN items[1]
    ELSE items[1] \o ", " \o JoinTargets(Tail(items))

\* Session.point_to_name(targets, time)
point_to_name(ss, ff, targets, time, deny) ==
    IF StateCheck(ss) # "ok" THEN Raise(St(ss, ff), StateCheck(ss))
    ELSE IF targets.t # "list" THEN Raise(St(ss, ff), "TypeError")
    ELSE XmlAppend(WriteToAop(St(ss, ff), "POIN",
                              <<"Pointing at target(s):",
                                JoinTargets(targets.items)>>,
                              time, deny),
                   "point",
                   [names |-> [i \in 1..Len(targets.items) |->
                                  PyStr(Str(targets.items[i]))]],
                   time, FALSE, deny)

PointToName(targets, time, deny) ==
    Returns("point_to_name", point_to_name(s, fs, targets, time, deny))

\* a number: its type, its text and its value in tenths
Num(type, text, tenths) == [t |-> type, v |-> text, n |-> tenths]

Coord(ra, dec) == [ra |-> ra, dec |-> dec]
CoordInputs ==
    {Coord(Num("float", "0.0", 0), Num("float", "-90.0", -900)),
     Coord(Num("float", "-0.1", -1), Num("float", "45.0", 450)),
     Coord(Num("float", "24.0", 240), Num("float", "45.0", 450)),
     Coord(Num("float", "12.5", 125), Num("float", "90.1", 901)),
     Coord(Num("int", "12", 120), Num("float", "45.0", 450))}

\* point_to_coords as it would be if an R.A. of 24.0 passed the range check
point_to_coords_closed_ra(ss, ff, ra, dec, time, deny) ==
    IF StateCheck(ss) # "ok" THEN Raise(St(ss, ff), StateCheck(ss))
    ELSE IF ra.t # "float" THEN Raise(St(ss, ff), "TypeError")
    ELSE IF dec.t # "float" THEN Raise(St(ss, ff), "TypeError")
    ELSE IF ra.n < 0 THEN Raise(St(ss, ff), "ValueError")
    ELSE IF ra.n > 240 THEN Raise(St(ss, ff), "ValueError")
    ELSE IF dec.n < -900 THEN Raise(St(ss, ff), "ValueError")
    ELSE IF dec.n > 900 THEN Raise(St(ss, ff), "ValueError")
    ELSE XmlAppend(WriteToAop(St(ss, ff), "POIN",
                              <<"Pointing at coordinates: R.A.:", ra.v,
                                "Dec.:", dec.v>>,
                              time, deny),
                   "point", [ra |-> PyStr(ra), dec |-> PyStr(dec)],
                   time, FALSE, deny)

\* Session.point_to_coords(ra, dec, time)
point_to_coords(ss, ff, ra, dec, time, deny) ==
    IF StateCheck(ss) # "ok" THEN Raise(St(ss, ff), StateCheck(ss))
    ELSE IF ra.t # "float" THEN Raise(St(ss, ff), "TypeError")
    ELSE IF dec.t # "float" THEN Raise(St(ss, ff), "TypeError")
    ELSE IF ra.n < 0 THEN Raise(St(ss, ff), "ValueError")
    ELSE IF ra.n >= 240 THEN Raise(St(ss, ff), "ValueError")
    ELSE IF dec.n < -900 THEN Raise(St(ss, ff), "ValueError")
    ELSE IF dec.n > 900 THEN Raise(St(ss, ff), "ValueError")
    ELSE XmlAppend(WriteToAop(St(ss, ff), "POIN",
                              <<"Pointing at coordinates: R.A.:", ra.v,
                                "Dec.:", dec.v>>,
                              time, deny),
                   "point", [ra |-> PyStr(ra), dec |-> PyStr(dec)],
                   time, FALSE, deny)

PointToCoords(ra, dec, time, deny) ==
    Returns("point_to_coords", point_to_coords(s, fs, ra, dec, time, deny))

----------------------------------------------------------------------------
(* Session.take_frame                                                      *)

Frame(n, ftype, iso, expt, ap) ==
    [n |-> n, ftype |-> ftype, iso |-> iso, expt |-> expt, ap |-> ap]
FrameInputs ==
    {Frame(IntVal("1"), Str("dark"), IntVal("800"), FloatVal("30.0"),
           FloatVal("5.6")),
     Frame(IntVal("1"), Str("sc"), IntVal("800"), FloatVal("30.0"),
           FloatVal("5.6")),
     Frame(IntVal("1"), Str("sf"), IntVal("800"), FloatVal("30.0"),
           FloatVal("5.6")),
     Frame(FloatVal("1.0"), Str("dark"), IntVal("800"), FloatVal("30.0"),
           FloatVal("5.6")),
     Frame(IntVal("1"), Str("dark"), IntVal("800"), IntVal("30"),
           FloatVal("5.6")),
     Frame(IntVal("0"), Str("dark"), IntVal("800"), FloatVal("30.0"),
           FloatVal("5.6"))}

\* the canonical frame type of an ftype key; "" for an invalid key
TypeStr(ftype) ==
    IF ftype \in {"science", "science frame", "s", "sc"} THEN "science"
    ELSE IF ftype \in {"dark", "dark frame", "d", "df"} THEN "dark"
    ELSE IF ftype \in {"flat", "flat frame", "f", "ff"} THEN "flat"
    ELSE IF ftype \in {"bias", "bias frame", "b", "bf"} THEN "bias"
    ELSE IF ftype \in {"pointing", "pointing frame", "p", "pf"}
    THEN "pointing"
    ELSE ""

\* take_frame as it would be if it replaced the <parameters> element the way
\* the operations that change an attribute do
take_frame_refreshing(ss, ff, n, ftype, iso, expt, ap, time, deny) ==
    IF StateCheck(ss) # "ok" THEN Raise(St(ss, ff), StateCheck(ss))
    ELSE IF n.t # "int" THEN Raise(St(ss, ff), "TypeError")
    ELSE IF ftype.t # "str" THEN Raise(St(ss, ff), "TypeError")
    ELSE IF expt.t # "float" THEN Raise(St(ss, ff), "TypeError")
    ELSE IF ap.t # "float" THEN Raise(St(ss, ff), "TypeError")
    ELSE IF iso.t # "int" THEN Raise(St(ss, ff), "TypeError")
    ELSE IF TypeStr(ftype.v) = "" THEN Raise(St(ss, ff), "ValueError")
    ELSE XmlAppend(WriteToAop(St(ss, ff), "FRAM",
                              <<n.v, TypeStr(ftype.v),
                                "frame(s) taken with settings: Exp.t.:",
                                expt.v, "s, Ap.: f/", ap.v, ", ISO:", iso.v>>,
                              time, deny),
                   "frame",
                   [number_of_frames |-> PyStr(n),
                    type |-> Str(TypeStr(ftype.v)),
                    exposure |-> PyStr(expt), iso |-> PyStr(iso),
                    aperture |-> PyStr(ap)],
                   time, TRUE, deny)

\* Session.take_frame(n, ftype, iso, expt, ap, time)
take_frame(ss, ff, n, ftype, iso, expt, ap, time, deny) ==
    IF StateCheck(ss) # "ok" THEN Raise(St(ss, ff), StateCheck(ss))
    ELSE IF n.t # "int" THEN Raise(St(ss, ff), "TypeError")
    ELSE IF ftype.t # "str" THEN Raise(St(ss, ff), "TypeError")
    ELSE IF expt.t # "float" THEN Raise(St(ss, ff), "TypeError")
    ELSE IF ap.t # "float" THEN Raise(St(ss, ff), "TypeError")
    ELSE IF iso.t # "int" THEN Raise(St(ss, ff), "TypeError")
    ELSE IF TypeStr(ftype.v) = "" THEN Raise(St(ss, ff), "ValueError")
    ELSE XmlAppend(WriteToAop(St(ss, ff), "FRAM",
                              <<n.v, TypeStr(ftype.v),
                                "frame(s) taken with settings: Exp.t.:",
                                expt.v, "s, Ap.: f/", ap.v, ", ISO:", iso.v>>,
                              time, deny),
                   "frame",
                   [number_of_frames |-> PyStr(n),
                    type |-> Str(TypeStr(ftype.v)),
                    exposure |-> PyStr(expt), iso |-> PyStr(iso),
                    aperture |-> PyStr(ap)],
                   time, FALSE, deny)

TakeFrame(n, ftype, iso, expt, ap, time, deny) ==
    Returns("take_frame", take_frame(s, fs, n, ftype, iso, expt, ap, time, deny))

----------------------------------------------------------------------------
(* Session.condition_report                                                *)

Report(description, temp, pressure, humidity) ==
    [description |-> description, temp |-> temp, pressure |-> pressure,
     humidity |-> humidity]
ReportInputs ==
    {Report(None, None, None, None),
     Report(Str("clear"), None, None, None),
     Report(None, FloatVal("15.5"), None, None),
     Report(None, None, None, IntVal("60")),
     Report(None, FloatVal("15.5"), None, IntVal("60")),
     Report(None, None, IntVal("1013"), None),
     Report(None, Str("15.5"), None, None),
     Report(Str("clear"), FloatVal("15.5"), IntVal("1013"), IntVal("60"))}

\* a block of condition_report as it would be without its v1.x part, the
\* update of the .aol and the line of the .aopl
ReportField_protocol_only(st, applies, attr, val, opcode, argument, tag, time, deny) ==
    IF st.res # "ok" \/ ~applies THEN st
    ELSE XmlAppend([st EXCEPT !.s[attr] = val], tag, Text(val), time, TRUE,
                   deny)

\* One block of condition_report: when the argument has the expected type,
\* set the attribute, update the .aol, write the line and add the element.
ReportField(st, applies, attr, val, opcode, argument, tag, time, deny) ==
    IF st.res # "ok" \/ ~applies THEN st
    ELSE LET v0 == [st EXCEPT !.s[attr] = val]
             v1 == WriteToAop(WriteToAol(v0, attr, val, deny),
                              opcode, argument, time, deny)
         IN  XmlAppend(v1, tag, Text(val), time, TRUE, deny)

\* condition_report as it would be if the description were logged whatever
\* its type, None included
condition_report_describing(ss, ff, description, temp, pressure, humidity, time, deny) ==
    IF StateCheck(ss) # "ok" THEN Raise(St(ss, ff), StateCheck(ss))
    ELSE LET d == ReportField(St(ss, ff), TRUE,
                              "conditionDescription", description,
                              "CDES", <<description.v>>,
                              "condition_description", time, deny)
             t == ReportField(d, temp.t \in {"float", "int"},
                              "temp", temp,
                              "CMES", <<"Temperature:", temp.v, "C">>,
                              "temperature", time, deny)
             p == ReportField(t, pressure.t \in {"int", "float"},
                              "pressure", pressure,
                              "CMES", <<"Air Pressure:", pressure.v, "hPa">>,
                              "pressure", time, deny)
         IN  ReportField(p, humidity.t \in {"int", "float"},
                         "humidity", humidity,
                         "CMES", <<"Air Humidity:", humidity.v, "%">>,
                         "humidity", time, deny)

\* Session.condition_report(description, temp, pressure, humidity, time)
condition_report(ss, ff, description, temp, pressure, humidity, time, deny) ==
    IF StateCheck(ss) # "ok" THEN Raise(St(ss, ff), StateCheck(ss))
    ELSE LET d == ReportField(St(ss, ff), description.t = "str",
                              "conditionDescription", description,
                              "CDES", <<description.v>>,
                              "condition_description", time, deny)
             t == ReportField(d, temp.t \in {"float", "int"},
                              "temp", temp,
                              "CMES", <<"Temperature:", temp.v, "C">>,
                              "temperature", time, deny)
             p == ReportField(t, pressure.t \in {"int", "float"},
                              "pressure", pressure,
                              "CMES", <<"Air Pressure:", pressure.v, "hPa">>,
                              "pressure", time, deny)
         IN  ReportField(p, humidity.t \in {"int", "float"},
                         "humidity", humidity,
                         "CMES", <<"Air Humidity:", humidity.v, "%">>,
                         "humidity", time, deny)

ConditionReport(description, temp, pressure, humidity, time, deny) ==
    Returns("condition_report", condition_report(s, fs, description, temp, pressure, humidity,
                             time, deny))

----------------------------------------------------------------------------
(* Session.report_variable_star_observation                                *)

StarId == "R Leo"
ChartId == "X12345"
Magnitude == FloatVal("7.2")
ComparisonStar1 == "72"
ComparisonStars2 == {None, Str("75")}

\* Session.report_variable_star_observation(star_id, chart_id, magnitude,
\* comparison_star_1, comparison_star_2, codes=None, time)
report_variable_star_observation(ss, ff, comparison_star_2, time, deny) ==
    IF StateCheck(ss) # "ok" THEN Raise(St(ss, ff), StateCheck(ss))
    ELSE LET codes == "[]"
             argument ==
                 IF comparison_star_2 # None
                 THEN <<StarId, "@", Magnitude.v, ": compared to",
                        ComparisonStar1, "and", comparison_star_2.v,
                        "on chart", ChartId, "Comment codes:", codes>>
                 ELSE <<StarId, "@", Magnitude.v, ": compared to",
                        ComparisonStar1,
                        "on chart", ChartId, "Comment codes:", codes>>
             common == [star_id |-> Str(StarId),
                        magnitude |-> PyStr(Magnitude),
                        chart_id |-> Str(ChartId),
                        comparison_star_1 |-> Str(ComparisonStar1),
                        observation_codes |-> Str(codes)]
             body == IF comparison_star_2 # None
                     THEN [k \in DOMAIN common \cup {"comparison_star_2"} |->
                              IF k = "comparison_star_2"
                              THEN PyStr(comparison_star_2) ELSE common[k]]
                     ELSE common
         IN  XmlAppend(WriteToAop(St(ss, ff), "VSOB", argument, time, deny),
                       "variable_star_observation", body, time, FALSE, deny)

ReportVariableStarObservation(comparison_star_2, time, deny) ==
    Returns("report_variable_star_observation", report_variable_star_observation(s, fs, comparison_star_2,
                                             time, deny))

----------------------------------------------------------------------------
(* parse_session                                                           *)

\* a path that is a file, not a directory
NotADirectory == "root/notes.txt"
\* the paths passed as filepath
Roots == {Filepath, NotADirectory}
\* os.path.isdir(filepath)
IsDir(filepath) == filepath = Filepath

\* what a call that makes a Session returns: the exception raised and the
\* attributes of the object
Made(res, session) == [res |-> res, session |-> session]

\* extract_parameters(xml): the tag and the text of every sub-element of
\* <parameters>; every value is a str
extract_parameters(xml) == xml.body

\* Session(filepath, **kwargs) with the "parsing" keyword.  The call binds
\* filepath twice when kwargs holds a "filepath" key.
SessionParsing(filepath, kwargs) ==
    IF "filepath" \in DOMAIN kwargs THEN Made("TypeError", NoSession)
    ELSE IF ~IsDir(filepath) THEN Made("NotADirectoryError", NoSession)
    ELSE Made("ok",
              [started |-> kwargs.started, obsID |-> kwargs.obsID,
               filepath |-> Str(filepath), observer |-> kwargs.observer,
               state |-> kwargs.state, interrupted |-> kwargs.interrupted,
               conditionDescription |-> None, temp |-> None,
               pressure |-> None, humidity |-> None])

\* parse_session without the check of the session's directory
parse_session_any_directory(ff, filepath, session_id, deny) ==
    IF ~IsDir(filepath) THEN Made("NotADirectoryError", NoSession)
    ELSE IF ~ff[session_id].aop.ex THEN Made("AolNotFoundError", NoSession)
    ELSE IF "aop" \in deny THEN Made("PermissionError", NoSession)
    ELSE Made("TypeError", NoSession)

\* parse_session(filepath, session_id) on the files ff, the files in deny
\* being unreadable
parse_session(ff, filepath, session_id, deny) ==
    IF ~IsDir(filepath) THEN Made("NotADirectoryError", NoSession)
    ELSE IF ~ff[session_id].dir
    THEN Made("SessionIDDoesntExistOnFilepathError", NoSession)
    ELSE IF ~ff[session_id].aop.ex THEN Made("AolNotFoundError", NoSession)
    ELSE IF "aop" \in deny THEN Made("PermissionError", NoSession)
    ELSE LET found == SelectSeq(ff[session_id].aop.kids,
                               LAMBDA n : n.tag = "parameters")
         IN  IF found = <<>> THEN Made("TypeError", NoSession)
             ELSE LET parameters_dict == extract_parameters(found[1])
                      kwargs == [k \in DOMAIN parameters_dict \cup {"parsing"}
                                    |-> IF k = "parsing" THEN True
                                        ELSE parameters_dict[k]]
                  IN  SessionParsing(filepath, kwargs)

\* a call of parse_session: it leaves the object and the files alone
ParseSession(filepath, session_id, deny) ==
    LET out == parse_session(fs, filepath, session_id, deny)
    IN  /\ loaded' = out.session
        /\ op' = "parse_session"
        /\ result' = out.res
        /\ calls' = calls + 1
        /\ scen' = -1
        /\ UNCHANGED <<s, fs>>

----------------------------------------------------------------------------
(* The specification.                                                      *)

\* the entries of a protocol: the children of the root but <parameters>
Entries(kids) == RemoveParameters(kids)

\* generate_observation_id(): the current UTC second and ten digits of a
\* uuid4.  It returns an id that no directory has yet, later than those
\* handed out before, or repeats one of those.
Used(ff) == {i \in 1..NumIds : ff[ObsId(i)].dir}
generate_observation_id(ff) ==
    {ObsId(i) : i \in {j \in 1..NumIds : \A k \in 1..(j - 1) : k \in Used(ff)}}

\* the circumstances of a call: its time argument and the files that cannot
\* be opened while it runs (a fault only with the default time)
Env(time, deny) == [time |-> time, deny |-> deny]
Envs == {Env(t, {}) : t \in Times} \cup {Env("current", d) : d \in Denies}

Init ==
    /\ s = SessionInit
    /\ fs = [i \in SessionIds |-> NoDir]
    /\ op = ""
    /\ result = "ok"
    /\ calls = 0
    /\ scen = 0
    /\ loaded = NoSession

\* fewer than n calls have been made
Within(n) == calls < n

\* one call of a public method of the Session object
Next ==
    \/ \E i \in generate_observation_id(fs), e \in Envs :
           Within(MaxCalls) /\ Start(i, e.time, e.deny)
    \/ \E e \in Envs : Within(MaxCalls) /\ Interrupt(e.time, e.deny)
    \/ \E e \in Envs : Within(MaxCalls) /\ Resume(e.time, e.deny)
    \/ \E r \in Reasons, e \in Envs :
           Within(MaxCalls) /\ Abort(r, e.time, e.deny)
    \/ \E e \in Envs : Within(MaxCalls) /\ End(e.time, e.deny)
    \/ \E c \in Comments, e \in Envs :
           Within(MaxCalls) /\ Comment(c, e.time, e.deny)
    \/ \E sev \in Severities, m \in Messages, e \in Envs :
           Within(MaxCalls) /\ Issue(sev, m, e.time, e.deny)
    \/ \E tg \in TargetInputs, e \in Envs :
           Within(MaxCalls) /\ PointToName(tg, e.time, e.deny)
    \/ \E c \in CoordInputs, e \in Envs :
           Within(MaxCalls) /\ PointToCoords(c.ra, c.dec, e.time, e.deny)
    \/ \E f \in FrameInputs, e \in Envs :
           Within(MaxCalls)
           /\ TakeFrame(f.n, f.ftype, f.iso, f.expt, f.ap, e.time, e.deny)
    \/ \E r \in ReportInputs, e \in Envs :
           Within(MaxCalls)
           /\ ConditionReport(r.description, r.temp, r.pressure, r.humidity,
                              e.time, e.deny)
    \/ \E c2 \in ComparisonStars2, e \in Envs :
           Within(MaxCalls)
           /\ ReportVariableStarObservation(c2, e.time, e.deny)

Spec == Init /\ [][Next]_vars

\* the calls that move a session through its life, and nothing else, with
\* every file accessible
TimeEnvs == {Env(t, {}) : t \in Times}
NextLifecycle ==
    \/ \E i \in generate_observation_id(fs), e \in TimeEnvs :
           Within(MaxLifecycleCalls) /\ Start(i, e.time, e.deny)
    \/ \E e \in TimeEnvs :
           Within(MaxLifecycleCalls) /\ Interrupt(e.time, e.deny)
    \/ \E e \in TimeEnvs :
           Within(MaxLifecycleCalls) /\ Resume(e.time, e.deny)
    \/ \E r \in Reasons, e \in TimeEnvs :
           Within(MaxLifecycleCalls) /\ Abort(r, e.time, e.deny)
    \/ \E e \in TimeEnvs :
           Within(MaxLifecycleCalls) /\ End(e.time, e.deny)

SpecLifecycle == Init /\ [][NextLifecycle]_vars

\* the calls that change the attributes of a session, and the loading of a
\* session from its files
NextLoad ==
    \/ \E i \in generate_observation_id(fs), e \in Envs :
           Within(MaxCalls) /\ Start(i, e.time, e.deny)
    \/ \E e \in Envs : Within(MaxCalls) /\ Interrupt(e.time, e.deny)
    \/ \E e \in Envs : Within(MaxCalls) /\ Resume(e.time, e.deny)
    \/ \E r \in Reasons, e \in Envs :
           Within(MaxCalls) /\ Abort(r, e.time, e.deny)
    \/ \E e \in Envs : Within(MaxCalls) /\ End(e.time, e.deny)
    \/ \E r \in ReportInputs, e \in Envs :
           Within(MaxCalls)
           /\ ConditionReport(r.description, r.temp, r.pressure, r.humidity,
                              e.time, e.deny)
    \/ \E p \in Roots, i \in SessionIds, d \in Denies :
           Within(MaxCalls) /\ ParseSession(p, i, d)

SpecLoad == Init /\ [][NextLoad]_vars

----------------------------------------------------------------------------
(* Reading the logs.                                                       *)

\* the exceptions derived from SessionStateError, and that class itself
StateErrors ==
    {"SessionStateError", "NotInterruptableError", "NotResumableError",
     "NotAbortableError", "NotEndableError", "AlreadyInterruptedError",
     "NotInterruptedError"}

\* the kind of entry a line of the .aopl is, from its opcode and, for a
\* session event, the last word of its argument
LineKind(e) ==
    LET last == e.arg[Len(e.arg)]
    IN  CASE e.opcode = "SEEV" /\ last = "STARTED" -> "SessionStarted"
          [] e.opcode = "SEEV" /\ last = "INTERRUPTED" -> "SessionInterrupted"
          [] e.opcode = "SEEV" /\ last = "RESUMED" -> "SessionResumed"
          [] e.opcode = "SEEV" /\ last = "ABORTED" -> "SessionAborted"
          [] e.opcode = "SEEV" /\ last = "ENDED" -> "SessionEnded"
          [] e.opcode = "OBSC" -> "Comment"
          [] e.opcode = "ISSU" -> "Issue"
          [] e.opcode = "POIN" -> "Pointing"
          [] e.opcode = "FRAM" -> "Frame"
          [] e.opcode = "CDES" -> "ConditionDescription"
          [] e.opcode = "CMES" -> "ConditionMeasurement"
          [] e.opcode = "VSOB" -> "VariableStarObservation"
          [] OTHER -> "?"

\* the kind of entry an element of the .aop is, from its tag
NodeKind(n) ==
    CASE n.tag = "start" -> "SessionStarted"
      [] n.tag = "interrupt" -> "SessionInterrupted"
      [] n.tag = "resume" -> "SessionResumed"
      [] n.tag = "abort" -> "SessionAborted"
      [] n.tag = "end" -> "SessionEnded"
      [] n.tag = "comment" -> "Comment"
      [] n.tag = "issue" -> "Issue"
      [] n.tag = "point" -> "Pointing"
      [] n.tag = "frame" -> "Frame"
      [] n.tag = "condition_description" -> "ConditionDescription"
      [] n.tag \in {"temperature", "pressure", "humidity"} ->
             "ConditionMeasurement"
      [] n.tag = "variable_star_observation" -> "VariableStarObservation"
      [] OTHER -> "?"

\* the kind of entry a successful call of a method appends
KindOf(method) ==
    CASE method = "start" -> "SessionStarted"
      [] method = "interrupt" -> "SessionInterrupted"
      [] method = "resume" -> "SessionResumed"
      [] method = "abort" -> "SessionAborted"
      [] method = "end" -> "SessionEnded"
      [] method = "comment" -> "Comment"
      [] method = "issue" -> "Issue"
      [] method \in {"point_to_name", "point_to_coords"} -> "Pointing"
      [] method = "take_frame" -> "Frame"
      [] method = "report_variable_star_observation" ->
             "VariableStarObservation"
      [] OTHER -> "?"

\* the entries of the line log and of the protocol of one directory
LineLog(d) == d.aopl.ents
TreeLog(d) == Entries(d.aop.kids)

\* the kinds of the entries of a log, in the order of the log
LineKinds(d) == [i \in 1..Len(LineLog(d)) |-> LineKind(LineLog(d)[i])]
TreeKinds(d) == [i \in 1..Len(TreeLog(d)) |-> NodeKind(TreeLog(d)[i])]

\* every event log under the storage root
Logs(ff) == [i \in SessionIds |-> <<LineLog(ff[i]), TreeLog(ff[i])>>]

\* the lifecycle state of the object
Unstarted(ss) == ~Truthy(ss.started)
Terminal(ss) == ss.state \in {Str("aborted"), Str("ended")}
Rank(ss) == IF Unstarted(ss) THEN 0 ELSE IF ss.state = Running THEN 1 ELSE 2

\* a call the state machine does not allow on an object with attributes ss
Illegal(method, ss) ==
    /\ method # "start"
    /\ \/ Unstarted(ss)
       \/ ss.state # Running
       \/ method = "interrupt" /\ Truthy(ss.interrupted)
       \/ method = "resume" /\ ~Truthy(ss.interrupted)

----------------------------------------------------------------------------
(* Claims.                                                                 *)

\* C1: a call of any operation but start on a session that is not started
\* or not running, an interrupt of an interrupted session and a resume of a
\* session that is not interrupted, fail with an exception of the
\* SessionStateError class and leave the attributes of the object and every
\* file as they were.
C1_IllegalCallsRejected ==
    [][Illegal(op', s) => /\ result' \in StateErrors
                          /\ s' = s
                          /\ fs' = fs]_vars

\* C2: once the state of the session is aborted or ended, no call appends an
\* entry to an event log, line log or protocol: every log stays as it was.
C2_NoEntryAfterTerminal == [][Terminal(s) => Logs(fs') = Logs(fs)]_vars

\* C3: the lifecycle state only moves forward, unstarted to running to
\* aborted or ended, whichever operation is called.
C3_StateMonotonic == [][Rank(s') >= Rank(s)]_vars

\* C4: start() on a session that has been started is rejected and changes
\* neither the attributes of the object nor a file.
C4_StartOnlyUnstarted ==
    [][(op' = "start" /\ ~Unstarted(s)) => /\ result' # "ok"
                                           /\ s' = s
                                           /\ fs' = fs]_vars

\* C5: once start() has assigned the observation id, no call changes it, and
\* no call changes the storage root given at construction.
C5_IdAndRootFixed ==
    [][/\ s.obsID # None => s'.obsID = s.obsID
       /\ s'.filepath = s.filepath]_vars

\* a log that holds exactly one SessionStarted entry, as its first entry
StartedOnceFirst(kinds) ==
    /\ kinds # <<>>
    /\ kinds[1] = "SessionStarted"
    /\ \A i \in 2..Len(kinds) : kinds[i] # "SessionStarted"

\* C6: in every reachable state, each event log that exists, line log or
\* protocol, holds exactly one SessionStarted entry, and that entry is the
\* first entry of the log.
C6_OneStartedEntryFirst ==
    \A i \in SessionIds :
        /\ fs[i].aopl.ex => StartedOnceFirst(LineKinds(fs[i]))
        /\ fs[i].aop.ex => StartedOnceFirst(TreeKinds(fs[i]))

\* the operations that change an attribute of the session
Mutating == {"start", "interrupt", "resume", "abort", "end",
             "condition_report"}

\* the <parameters> elements of a protocol
Parameters(kids) == SelectSeq(kids, LAMBDA n : n.tag = "parameters")

\* the .aol and the <parameters> element of the session's directory hold,
\* for every attribute, the value the object holds (in the protocol: its
\* str())
SnapshotMatches(ss, ff) ==
    LET d == ff[Sid(ss)]
    IN  /\ d.aol.ex
        /\ d.aol.param = ss
        /\ d.aop.ex
        /\ Len(Parameters(d.aop.kids)) = 1
        /\ Parameters(d.aop.kids)[1].body = ParametersNode(ss).body

\* C7: after every call of start, interrupt, resume, abort, end or
\* condition_report that returns without error, the .aol and the
\* <parameters> element of the protocol hold for every attribute, state,
\* interrupted and obsID included, the value the object holds in memory.
C7_SnapshotEqualsMemory ==
    [][(op' \in Mutating /\ result' = "ok") => SnapshotMatches(s', fs')]_vars

\* the kinds of the entries the calls of Scenario leave in a log
ScenarioKinds == [i \in 1..Len(Scenario) |-> KindOf(Scenario[i])]

\* the calls made so far are exactly those of Scenario, all successful
ScenarioDone == scen = Len(Scenario)

\* C8 as stated: start, interrupt, resume, interrupt, end on a fresh session
\* leave the log [SessionStarted, SessionInterrupted, SessionResumed,
\* SessionInterrupted, SessionEnded], the state ended and interrupted false;
\* and after any successful end() the interrupted flag is false.
C8_EndClearsInterrupted ==
    /\ ScenarioDone =>
           /\ LineKinds(fs[Sid(s)]) = ScenarioKinds
           /\ TreeKinds(fs[Sid(s)]) = ScenarioKinds
           /\ s.state = Str("ended")
           /\ s.interrupted = False
    /\ (op = "end" /\ result = "ok") => s.interrupted = False

\* C8, amended: start, interrupt, resume, interrupt, end on a fresh session
\* leave the log [SessionStarted, SessionInterrupted, SessionResumed,
\* SessionInterrupted, SessionEnded] in the line log and in the protocol, the
\* state ended and interrupted still true; and a successful end() leaves the
\* interrupted flag as it was before the call.
C8_EndKeepsInterrupted ==
    /\ [](ScenarioDone =>
              /\ LineKinds(fs[Sid(s)]) = ScenarioKinds
              /\ TreeKinds(fs[Sid(s)]) = ScenarioKinds
              /\ s.state = Str("ended")
              /\ s.interrupted = True)
    /\ [][(op' = "end" /\ result' = "ok") =>
              s'.interrupted = s.interrupted]_vars

\* the five calls of the scenario have been made, the last being end()
C8_ScenarioRun ==
    /\ ScenarioDone
    /\ op = "end" /\ result = "ok"
    /\ Len(LineLog(fs[Sid(s)])) = Len(Scenario)
    /\ s.interrupted = True

\* C9: the interrupted flag changes only by a successful interrupt, from
\* false to true, or a successful resume, from true to false, of a running
\* session; no other call and no failed call changes it.
C9_InterruptedOnlyToggles ==
    [][s'.interrupted # s.interrupted =>
           /\ result' = "ok"
           /\ s.state = Running
           /\ \/ /\ op' = "interrupt"
                 /\ s.interrupted = False /\ s'.interrupted = True
              \/ /\ op' = "resume"
                 /\ s.interrupted = True /\ s'.interrupted = False]_vars

\* the operations that log one entry per call
EntryOps == {"start", "interrupt", "resume", "abort", "end", "comment",
             "issue", "point_to_name", "point_to_coords", "take_frame",
             "report_variable_star_observation"}

\* log after is log before plus one entry at its end
OneMore(before, after) ==
    /\ Len(after) = Len(before) + 1
    /\ SubSeq(after, 1, Len(before)) = before

\* C10: each successful call of start, interrupt, resume, abort, end,
\* comment, issue, point_to_name, point_to_coords, take_frame or
\* report_variable_star_observation appends exactly one entry, of the kind of
\* the operation, to the line log and to the protocol of the session, and
\* leaves every earlier entry, and every other log, as it was.
C10_OneEntryPerCall ==
    [][(op' \in EntryOps /\ result' = "ok") =>
           LET sid == Sid(s')
               before == fs[sid]
               after == fs'[sid]
           IN  /\ OneMore(LineLog(before), LineLog(after))
               /\ OneMore(TreeLog(before), TreeLog(after))
               /\ LineKinds(after)[Len(LineLog(after))] = KindOf(op')
               /\ TreeKinds(after)[Len(TreeLog(after))] = KindOf(op')
               /\ \A i \in SessionIds \ {sid} :
                      Logs(fs')[i] = Logs(fs)[i]]_vars

\* a third entry has been logged by a call that is not a session event
C10_ThreeEntries ==
    /\ op \in EntryOps \ {"start", "interrupt", "resume", "abort", "end"}
    /\ result = "ok"
    /\ Len(LineLog(fs[Sid(s)])) = 3
    /\ Len(TreeLog(fs[Sid(s)])) = 3

----------------------------------------------------------------------------
(* Claims about condition_report.                                          *)

\* what condition_report(r) in the circumstances e makes of the object and
\* the files as they are
Reported(r, e) ==
    condition_report(s, fs, r.description, r.temp, r.pressure, r.humidity,
                     e.time, e.deny)

\* the fields of a report
MeasurementFields == {"temp", "pressure", "humidity"}
ReportFields == {"description"} \cup MeasurementFields

\* the fields of a report that hold a value of their type: a str as
\* description, an int or a float as measurement
Supplied(r) ==
    {k \in ReportFields :
        IF k = "description" THEN r[k].t = "str"
        ELSE r[k].t \in {"int", "float"}}

\* the kinds of the entries of a report, in the order of the blocks of
\* condition_report
ReportKinds(r) ==
    LET One(k, kind) == IF k \in Supplied(r) THEN <<kind>> ELSE <<>>
    IN  One("description", "ConditionDescription")
        \o One("temp", "ConditionMeasurement")
        \o One("pressure", "ConditionMeasurement")
        \o One("humidity", "ConditionMeasurement")

\* C11 as stated: a successful condition_report appends between zero and
\* three entries to each event log, exactly one for each measurement field
\* (temp, pressure, humidity) that is supplied.
C11_OnePerMeasurement ==
    \A r \in ReportInputs, e \in Envs :
        LET out == Reported(r, e)
            n == Cardinality(Supplied(r) \cap MeasurementFields)
        IN  out.res = "ok" =>
                /\ Len(LineLog(out.fs[Sid(s)])) = Len(LineLog(fs[Sid(s)])) + n
                /\ Len(TreeLog(out.fs[Sid(s)])) = Len(TreeLog(fs[Sid(s)])) + n
                /\ n \in 0..3

\* C11, amended: a successful condition_report appends between zero and
\* four entries to the line log and to the protocol, after the entries
\* already there: one ConditionDescription entry when the description is a
\* string and one ConditionMeasurement entry for each of temp, pressure and
\* humidity that is an int or a float; an argument of another type is
\* passed over.
C11_OnePerSuppliedField ==
    \A r \in ReportInputs, e \in Envs :
        LET out == Reported(r, e)
        IN  out.res = "ok" =>
                /\ LineKinds(out.fs[Sid(s)])
                       = LineKinds(fs[Sid(s)]) \o ReportKinds(r)
                /\ TreeKinds(out.fs[Sid(s)])
                       = TreeKinds(fs[Sid(s)]) \o ReportKinds(r)
                /\ Len(ReportKinds(r)) \in 0..4

\* a report of a description and three measurements has been logged after
\* the start of the session
C11_FourEntries ==
    /\ op = "condition_report" /\ result = "ok"
    /\ LineKinds(fs[Sid(s)])
           = <<"SessionStarted", "ConditionDescription",
               "ConditionMeasurement", "ConditionMeasurement",
               "ConditionMeasurement">>
    /\ TreeKinds(fs[Sid(s)]) = LineKinds(fs[Sid(s)])

\* the attribute a field of a report is kept in
AttrOf(k) == IF k = "description" THEN "conditionDescription" ELSE k
ConditionAttrs == {AttrOf(k) : k \in ReportFields}

\* the element and the line a supplied field of a report is logged as: the
\* tag and text of the element, the opcode of the line and the words of its
\* argument up to the value
ReportEntry(r, k) ==
    CASE k = "description" ->
             [tag |-> "condition_description", text |-> PyStr(r[k]),
              opcode |-> "CDES", words |-> <<r[k].v>>]
      [] k = "temp" ->
             [tag |-> "temperature", text |-> PyStr(r[k]),
              opcode |-> "CMES", words |-> <<"Temperature:", r[k].v>>]
      [] k = "pressure" ->
             [tag |-> "pressure", text |-> PyStr(r[k]),
              opcode |-> "CMES", words |-> <<"Air Pressure:", r[k].v>>]
      [] k = "humidity" ->
             [tag |-> "humidity", text |-> PyStr(r[k]),
              opcode |-> "CMES", words |-> <<"Air Humidity:", r[k].v>>]

\* the entries of a report in the order description, temperature, pressure,
\* humidity
ReportEntries(r) ==
    LET One(k) == IF k \in Supplied(r) THEN <<ReportEntry(r, k)>> ELSE <<>>
    IN  One("description") \o One("temp") \o One("pressure")
        \o One("humidity")

\* the elements after are the elements before and then those of the entries
TreeAppended(before, after, entries) ==
    /\ Len(after) = Len(before) + Len(entries)
    /\ SubSeq(after, 1, Len(before)) = before
    /\ \A i \in 1..Len(entries) :
           /\ after[Len(before) + i].tag = entries[i].tag
           /\ after[Len(before) + i].body = [text |-> entries[i].text]

\* the lines after are the lines before and then those of the entries
LinesAppended(before, after, entries) ==
    /\ Len(after) = Len(before) + Len(entries)
    /\ SubSeq(after, 1, Len(before)) = before
    /\ \A i \in 1..Len(entries) :
           /\ after[Len(before) + i].opcode = entries[i].opcode
           /\ SubSeq(after[Len(before) + i].arg, 1, Len(entries[i].words))
                  = entries[i].words

\* the condition attributes new are those of old but for the supplied
\* fields of the report, which hold the values of the report (as, a
\* conversion of a value, tells how the snapshot holds a value)
FieldsSet(old, new, r, as(_)) ==
    \A k \in ReportFields :
        new[AttrOf(k)] = IF k \in Supplied(r) THEN as(r[k])
                         ELSE old[AttrOf(k)]

\* the value itself, as an attribute and the .aol hold it
Same(val) == val

\* C12: a successful condition_report on a running session appends one entry
\* per supplied field, in the order description, temperature, pressure,
\* humidity, to the line log and to the protocol; sets exactly the supplied
\* condition fields of the object, of the .aol and of the <parameters>
\* element to the supplied values; and leaves the other condition fields,
\* there too, as they were.
C12_FieldsIndependent ==
    \A r \in ReportInputs, e \in Envs :
        LET out == Reported(r, e)
            d == fs[Sid(s)]
            dd == out.fs[Sid(s)]
        IN  (out.res = "ok" /\ d.aol.ex /\ d.aop.ex) =>
                /\ LinesAppended(LineLog(d), LineLog(dd), ReportEntries(r))
                /\ TreeAppended(TreeLog(d), TreeLog(dd), ReportEntries(r))
                /\ FieldsSet(s, out.s, r, Same)
                /\ \A a \in AttrNames \ ConditionAttrs : out.s[a] = s[a]
                /\ FieldsSet(d.aol.param, dd.aol.param, r, Same)
                /\ FieldsSet(Parameters(d.aop.kids)[1].body,
                             Parameters(dd.aop.kids)[1].body, r, PyStr)

\* what condition_report(r) in the circumstances e makes of the object and
\* the files a call left, whether that call returned or raised
ReportedNext(st, r, e) ==
    condition_report(st.s, st.fs, r.description, r.temp, r.pressure,
                     r.humidity, e.time, e.deny)

\* the reports of one measurement
SingleMeasurements ==
    {r \in ReportInputs : /\ Cardinality(Supplied(r)) = 1
                          /\ Supplied(r) \subseteq MeasurementFields}

\* the snapshot of the session: the attributes of the object, the .aol and
\* the <parameters> elements of the protocol
Snapshot(st) ==
    [memory |-> st.s,
     aol |-> st.fs[Sid(st.s)].aol,
     parameters |-> Parameters(st.fs[Sid(st.s)].aop.kids)]

\* C13: two condition_report calls that report two different measurements
\* leave the same attributes in the object, in the .aol and in the
\* <parameters> element, and end the same way, whichever of the two is made
\* first.
C13_MeasurementsCommute ==
    \A r1 \in SingleMeasurements, r2 \in SingleMeasurements, e \in Envs :
        (Supplied(r1) # Supplied(r2) /\ StateCheck(s) = "ok") =>
            LET a == ReportedNext(Reported(r1, e), r2, e)
                b == ReportedNext(Reported(r2, e), r1, e)
            IN  /\ a.res = b.res
                /\ Snapshot(a) = Snapshot(b)

\* the temperature has been reported after the humidity, in two calls
C13_TwoReports ==
    /\ op = "condition_report" /\ result = "ok" /\ calls = 3
    /\ s.temp # None /\ s.humidity # None
    /\ LET log == TreeLog(fs[Sid(s)])
       IN  /\ Len(log) = 3
           /\ log[2].tag = "humidity"
           /\ log[3].tag = "temperature"
    /\ fs[Sid(s)].aol.param.temp = s.temp
    /\ fs[Sid(s)].aol.param.humidity = s.humidity

\* condition_report() without arguments: every field None
NullReport == Report(None, None, None, None)

\* C14: on a running session, condition_report with every field None
\* returns without error and changes nothing: no attribute of the object,
\* no file, no entry.
C14_NullReportNoOp ==
    StateCheck(s) = "ok" =>
        \A e \in Envs : Reported(NullReport, e) = St(s, fs)

\* a condition_report has returned and the log holds what it held before,
\* the entry of the start
C14_NothingLogged ==
    /\ op = "condition_report" /\ result = "ok" /\ calls = 2
    /\ s.state = Running
    /\ LineKinds(fs[Sid(s)]) = <<"SessionStarted">>
    /\ TreeKinds(fs[Sid(s)]) = <<"SessionStarted">>
    /\ \A a \in ConditionAttrs : s[a] = None

----------------------------------------------------------------------------
(* Claims about the order of the entries and about failing writes.         *)

\* log before is the beginning of log after
IsPrefix(before, after) ==
    /\ Len(before) <= Len(after)
    /\ SubSeq(after, 1, Len(before)) = before

\* the kinds of entries a call of a method can log
KindsOf(method) ==
    IF method = "condition_report"
    THEN {"ConditionDescription", "ConditionMeasurement"}
    ELSE {KindOf(method)}

\* the entries of log after that log before does not hold are of the kinds
\* of the method
NewAre(before, after, kinds, method) ==
    \A j \in (Len(before) + 1)..Len(after) : kinds[j] \in KindsOf(method)

\* C15: the entries of every log, line log and protocol, are in the order
\* of the calls: a call leaves the entries a log held as its beginning, in
\* their order, and what it adds after them is of the kind of the operation
\* called; so also in the protocol, where <parameters> is removed and added
\* again.
C15_OrderOfCalls ==
    [][\A i \in SessionIds :
           /\ IsPrefix(LineLog(fs[i]), LineLog(fs'[i]))
           /\ IsPrefix(TreeLog(fs[i]), TreeLog(fs'[i]))
           /\ NewAre(LineLog(fs[i]), LineLog(fs'[i]), LineKinds(fs'[i]), op')
           /\ NewAre(TreeLog(fs[i]), TreeLog(fs'[i]), TreeKinds(fs'[i]), op')
      ]_vars

\* an interrupt has been logged after a comment, and <parameters>, added
\* again, is the last element of the protocol
C15_ThreeInOrder ==
    /\ op = "interrupt" /\ result = "ok"
    /\ LineKinds(fs[Sid(s)])
           = <<"SessionStarted", "Comment", "SessionInterrupted">>
    /\ TreeKinds(fs[Sid(s)])
           = <<"SessionStarted", "Comment", "SessionInterrupted">>
    /\ LET kids == fs[Sid(s)].aop.kids
       IN  Len(kids) = 4 /\ kids[4].tag = "parameters"

\* the errors of the file system a call can surface
IOErrors == {"PermissionError", "FileNotFoundError"}

\* the files of a session directory
FileNames == {"aopl", "aol", "aop"}

\* every file that exists in before is in after what it is in before
PersistedKept(before, after) ==
    \A i \in SessionIds, f \in FileNames :
        before[i][f].ex => after[i][f] = before[i][f]

\* C16: a call in which a write fails surfaces the error of the file system
\* and leaves every file that existed before the call, .aopl, .aol and
\* .aop, exactly as it was.
C16_FailedWriteChangesNothing ==
    [][result' \in IOErrors => PersistedKept(fs, fs')]_vars

\* the exceptions start() raises for a file that exists
AlreadyExists == {"AopFileAlreadyExistsError", "AolFileAlreadyExistsError"}

\* a file of the session exists in the directory
FilesPresent(d) == d.aop.ex \/ d.aopl.ex \/ d.aol.ex

\* C17: a start() whose observation id names a directory of the storage
\* root that holds a file of a session already, fails with
\* AopFileAlreadyExistsError or AolFileAlreadyExistsError and leaves every
\* file as it was; so a second start() with the same id fails.
C17_StartKeepsExistingFiles ==
    [][(op' = "start" /\ FilesPresent(fs[Sid(s')])) =>
           /\ result' \in AlreadyExists
           /\ fs' = fs]_vars

\* a start() has failed on the files of a session that had logged an entry
\* after its start, and the files hold what they held
C17_SecondStartRefused ==
    /\ op = "start" /\ result \in AlreadyExists /\ calls = 3
    /\ Len(LineLog(fs[Sid(s)])) = 2
    /\ Len(TreeLog(fs[Sid(s)])) = 2
    /\ fs[Sid(s)].aol.ex

\* parse_session of the session's own directory: the filepath and the
\* observation id the object holds, every file readable
Loaded(ss, ff) == parse_session(ff, ss.filepath.v, Sid(ss), {})

\* C18: whenever the files of a started session hold the snapshot of the
\* object, as they do after calls that all succeeded, parse_session of its
\* filepath and observation id returns a session whose attributes equal
\* those of the object, value for value and type for type, state,
\* interrupted and the condition fields included.
C18_LoadRoundTrip ==
    (~Unstarted(s) /\ SnapshotMatches(s, fs)) =>
        /\ Loaded(s, fs).res = "ok"
        /\ Loaded(s, fs).session = s

\* the exception each call of the session life cycle raises on the object ss
Verdicts(ss, ff) ==
    [m \in {"interrupt", "resume", "abort", "end"} |->
        CASE m = "interrupt" -> interrupt(ss, ff, "current", {}).res
          [] m = "resume" -> resume(ss, ff, "current", {}).res
          [] m = "abort" -> abort(ss, ff, "clouds", "current", {}).res
          [] m = "end" -> end(ss, ff, "current", {}).res]

\* C19: whenever the files of a started session hold the snapshot of the
\* object, parse_session returns a session that is started, that holds the
\* state and the interrupted flag of the snapshot, and on which interrupt,
\* resume, abort and end succeed or fail exactly as they do on the object.
C19_LoadedBehavesAlike ==
    (~Unstarted(s) /\ SnapshotMatches(s, fs)) =>
        /\ Loaded(s, fs).res = "ok"
        /\ Truthy(Loaded(s, fs).session.started)
        /\ Loaded(s, fs).session.state = fs[Sid(s)].aol.param.state
        /\ Loaded(s, fs).session.interrupted
               = fs[Sid(s)].aol.param.interrupted
        /\ Verdicts(Loaded(s, fs).session, fs) = Verdicts(s, fs)

\* what parse_session raises before it reads the protocol, missing stands
\* for the exception of a protocol that is not there and unreadable for
\* that of one that cannot be opened; no session is returned
LoadFails(ff, missing, unreadable) ==
    \A p \in Roots, i \in SessionIds, d \in Denies :
        LET out == parse_session(ff, p, i, d)
            expected ==
                IF ~IsDir(p) THEN "NotADirectoryError"
                ELSE IF ~ff[i].dir THEN "SessionIDDoesntExistOnFilepathError"
                ELSE IF ~ff[i].aop.ex THEN missing
                ELSE IF "aop" \in d THEN unreadable
                ELSE out.res
        IN  /\ out.res = expected
            /\ out.res # "ok" => out.session = NoSession

\* a call of parse_session that fails changes no file and returns no session
LoadFailureInert ==
    (op' = "parse_session" /\ result' # "ok") =>
        /\ fs' = fs
        /\ loaded' = NoSession

\* C20 as stated: parse_session raises NotADirectoryError when filepath is
\* not a directory, otherwise SessionIDDoesntExistOnFilepathError when it
\* has no directory named after the session id, otherwise AolNotFoundError
\* when the directory exists but the protocol is missing or unreadable; no
\* session is returned and no file is modified.
C20_UnreadableIsNotFound ==
    /\ []LoadFails(fs, "AolNotFoundError", "AolNotFoundError")
    /\ [][LoadFailureInert]_vars

\* C20, amended: parse_session raises NotADirectoryError when filepath is
\* not a directory, otherwise SessionIDDoesntExistOnFilepathError when it
\* has no directory named after the session id, otherwise AolNotFoundError
\* when the directory exists but the protocol is missing, otherwise
\* PermissionError when the protocol exists but cannot be opened; no session
\* is returned and no file is modified.
C20_LoadErrors ==
    /\ []LoadFails(fs, "AolNotFoundError", "PermissionError")
    /\ [][LoadFailureInert]_vars

\* a call of parse_session has failed on a protocol that cannot be opened,
\* while the directory of another session is without its protocol
C20_ProtocolUnreadable ==
    /\ op = "parse_session"
    /\ result = "PermissionError"
    /\ loaded = NoSession
    /\ \E i \in SessionIds : fs[i].dir /\ fs[i].aop.ex
    /\ \E i \in SessionIds : fs[i].dir /\ ~fs[i].aop.ex

----------------------------------------------------------------------------
(* The arguments of the logging operations.                                *)

\* the session is running and its line log and its protocol are there
Recording(ss, ff) ==
    /\ StateCheck(ss) = "ok"
    /\ ff[Sid(ss)].dir
    /\ ff[Sid(ss)].aopl.ex
    /\ ff[Sid(ss)].aop.ex

\* the exceptions raised for an argument of the wrong value or type
InvalidArgument == {"ValueError", "TypeError"}

\* the last entry of a log
Last(log) == log[Len(log)]

\* the files after hold one entry more than the files before in the line
\* log and in the protocol of the session, of the given kind, and are the
\* same otherwise
OneEntry(ss, before, after, kind) ==
    /\ OneMore(LineLog(before[Sid(ss)]), LineLog(after[Sid(ss)]))
    /\ LineKind(Last(LineLog(after[Sid(ss)]))) = kind
    /\ OneMore(TreeLog(before[Sid(ss)]), TreeLog(after[Sid(ss)]))
    /\ NodeKind(Last(TreeLog(after[Sid(ss)]))) = kind
    /\ \A i \in SessionIds \ {Sid(ss)} : after[i] = before[i]

\* a call that failed with an argument error and changed nothing
Rejected(out, ss, ff) ==
    /\ out.res \in InvalidArgument
    /\ out.fs = ff
    /\ out.s = ss

\* right ascensions and declinations around the limits of their ranges
Hours ==
    {Num("float", "-0.1", -1), Num("float", "0.0", 0),
     Num("float", "12.5", 125), Num("float", "23.9", 239),
     Num("float", "24.0", 240)}
Degrees ==
    {Num("float", "-90.1", -901), Num("float", "-90.0", -900),
     Num("float", "45.0", 450), Num("float", "90.0", 900),
     Num("float", "90.1", 901)}

\* 0 <= ra < 24 and -90 <= dec <= 90
InRange(ra, dec) ==
    /\ 0 <= ra.n /\ ra.n < 240
    /\ -900 <= dec.n /\ dec.n <= 900

\* C21: on a running session whose logs exist, point_to_coords with float
\* coordinates appends a Pointing entry, holding the coordinates, to both
\* logs if 0 <= ra < 24 and -90 <= dec <= 90, and otherwise raises
\* ValueError and changes nothing; so -0.1 h, 24.0 h, -90.1 deg and 90.1 deg
\* are rejected, and 0.0 h, -90.0 deg and 90.0 deg accepted.
C21_PointingInRange ==
    Recording(s, fs) =>
        \A ra \in Hours, dec \in Degrees :
            LET out == point_to_coords(s, fs, ra, dec, "current", {})
            IN  IF InRange(ra, dec)
                THEN /\ out.res = "ok"
                     /\ OneEntry(s, fs, out.fs, "Pointing")
                     /\ Last(TreeLog(out.fs[Sid(s)])).body
                            = [ra |-> Str(ra.v), dec |-> Str(dec.v)]
                ELSE /\ out.res = "ValueError"
                     /\ Rejected(out, s, fs)

\* a call of point_to_coords with ra = 0.0 and dec = -90.0 has logged
C21_BoundaryAccepted ==
    /\ op = "point_to_coords"
    /\ result = "ok"
    /\ Last(TreeLog(fs[Sid(s)])).body = [ra |-> Str("0.0"), dec |-> Str("-90.0")]

\* the severities issue() documents, and others
AcceptedSeverities == {"potential", "p", "normal", "n", "major", "m"}
OtherSeverities == {"critical", "minor", "P", ""}

\* C22: on a running session whose logs exist, issue with a severity other
\* than potential, p, normal, n, major, m raises ValueError and changes no
\* file; with one of these it appends exactly one Issue entry, holding the
\* severity and the message, to the line log and to the protocol.
C22_IssueSeverity ==
    Recording(s, fs) =>
        \A severity \in AcceptedSeverities \cup OtherSeverities,
           message \in Messages :
            LET out == issue(s, fs, severity, message, "current", {})
            IN  IF severity \in AcceptedSeverities
                THEN /\ out.res = "ok"
                     /\ OneEntry(s, fs, out.fs, "Issue")
                     /\ Last(TreeLog(out.fs[Sid(s)])).body
                            = [severity |-> Str(severity),
                               description |-> Str(message)]
                ELSE /\ out.res = "ValueError"
                     /\ Rejected(out, s, fs)

\* a call of issue on a running session has failed on its severity
C22_SeverityRefused ==
    /\ op = "issue"
    /\ result = "ValueError"
    /\ Recording(s, fs)
    /\ Len(LineLog(fs[Sid(s)])) = 1

\* C23: on a running session whose logs exist, point_to_name with an empty
\* list, or with a value that is not a list, raises TypeError or ValueError
\* and changes no file; with a list that is not empty it appends exactly one
\* Pointing entry, holding the names in the order given, to both logs.
C23_TargetsNotEmpty ==
    Recording(s, fs) =>
        \A targets \in TargetInputs :
            LET out == point_to_name(s, fs, targets, "current", {})
            IN  IF targets.t = "list" /\ targets.items # <<>>
                THEN /\ out.res = "ok"
                     /\ OneEntry(s, fs, out.fs, "Pointing")
                     /\ Last(TreeLog(out.fs[Sid(s)])).body
                            = [names |-> [i \in 1..Len(targets.items) |->
                                             Str(targets.items[i])]]
                ELSE Rejected(out, s, fs)

\* a call of point_to_name with an empty list has logged an entry
C23_EmptyListLogged ==
    /\ op = "point_to_name"
    /\ result = "ok"
    /\ Last(TreeLog(fs[Sid(s)])).body = [names |-> <<>>]

\* frame counts, with the number each holds, and frame types
FrameCounts ==
    {[t |-> "int", v |-> "1", n |-> 1], [t |-> "int", v |-> "3", n |-> 3],
     [t |-> "int", v |-> "0", n |-> 0], [t |-> "int", v |-> "-3", n |-> -3],
     [t |-> "float", v |-> "1.0", n |-> 1]}
FrameTypes == {"science", "dark", "flat", "bias", "pointing"}
OtherFrameTypes == {"light", "Dark", ""}

\* C24: on a running session whose logs exist, take_frame appends a Frame
\* entry only when n is an int greater than 0 and ftype one of the five frame
\* types; with an n that is not positive, an unknown ftype or an n of the
\* wrong type it raises TypeError or ValueError and changes no file.
C24_FrameArguments ==
    Recording(s, fs) =>
        \A n \in FrameCounts, ftype \in FrameTypes \cup OtherFrameTypes :
            LET out == take_frame(s, fs, n, Str(ftype), IntVal("800"),
                                  FloatVal("30.0"), FloatVal("5.6"),
                                  "current", {})
            IN  IF n.t = "int" /\ n.n > 0 /\ ftype \in FrameTypes
                THEN out.res = "ok" /\ OneEntry(s, fs, out.fs, "Frame")
                ELSE Rejected(out, s, fs)

\* a call of take_frame with n = 0 has logged a Frame entry
C24_NoFrameLogged ==
    /\ op = "take_frame"
    /\ result = "ok"
    /\ Last(TreeLog(fs[Sid(s)])).body.number_of_frames = Str("0")

\* the frame-type names the docstring of take_frame lists, by the frame type
\* each stands for
DocumentedNames ==
    [science |-> {"science frame", "science", "sf", "s"},
     dark |-> {"dark frame", "dark", "df", "d"},
     flat |-> {"flat frame", "flat", "ff", "f"},
     bias |-> {"bias frame", "bias", "bf", "b"},
     pointing |-> {"pointing frame", "pointing", "pf", "p"}]
Documented == UNION {DocumentedNames[k] : k \in DOMAIN DocumentedNames}
Canonical(ftype) ==
    CHOOSE k \in DOMAIN DocumentedNames : ftype \in DocumentedNames[k]

\* strings the docstring does not list
Undocumented == {"sc", "light", "Dark", "science  frame", ""}

\* C25: on a running session whose logs exist, take_frame accepts every
\* frame-type name its docstring lists and records the frame under the type
\* the name stands for (science, dark, flat, bias, pointing), and it rejects
\* every other string with ValueError, changing no file.
C25_DocumentedFrameTypes ==
    Recording(s, fs) =>
        \A ftype \in Documented \cup Undocumented :
            LET out == take_frame(s, fs, IntVal("1"), Str(ftype),
                                  IntVal("800"), FloatVal("30.0"),
                                  FloatVal("5.6"), "current", {})
            IN  IF ftype \in Documented
                THEN /\ out.res = "ok"
                     /\ OneEntry(s, fs, out.fs, "Frame")
                     /\ Last(TreeLog(out.fs[Sid(s)])).body.type
                            = Str(Canonical(ftype))
                ELSE /\ out.res = "ValueError"
                     /\ Rejected(out, s, fs)

\* a call of take_frame with the name "sc", which the docstring does not
\* list, has logged a science frame
C25_UndocumentedAccepted ==
    /\ op = "take_frame"
    /\ result = "ok"
    /\ Last(TreeLog(fs[Sid(s)])).body.type = Str("science")

----------------------------------------------------------------------------
(* The time argument.                                                      *)

\* the operations of a started session, each with arguments that are valid
TimedCalls ==
    {"interrupt", "resume", "abort", "end", "comment", "issue",
     "point_to_name", "point_to_coords", "take_frame",
     "report_variable_star_observation"}

\* the call of an operation on ss and ff at the given time, every file
\* being writable
TimedCall(m, ss, ff, time) ==
    CASE m = "interrupt" -> interrupt(ss, ff, time, {})
      [] m = "resume" -> resume(ss, ff, time, {})
      [] m = "abort" -> abort(ss, ff, "clouds", time, {})
      [] m = "end" -> end(ss, ff, time, {})
      [] m = "comment" -> comment(ss, ff, "seeing is good", time, {})
      [] m = "issue" -> issue(ss, ff, "m", "dew on lens", time, {})
      [] m = "point_to_name" ->
             point_to_name(ss, ff, List(<<"M31">>), time, {})
      [] m = "point_to_coords" ->
             point_to_coords(ss, ff, Num("float", "12.5", 125),
                             Num("float", "45.0", 450), time, {})
      [] m = "take_frame" ->
             take_frame(ss, ff, IntVal("1"), Str("dark"), IntVal("800"),
                        FloatVal("30.0"), FloatVal("5.6"), time, {})
      [] m = "report_variable_star_observation" ->
             report_variable_star_observation(ss, ff, None, time, {})

\* a call that failed on its time argument and added no entry to any log
TimeRefused(out, ff) ==
    /\ out.res = "InvalidTimeStringError"
    /\ Logs(out.fs) = Logs(ff)

\* C26: a call of any operation that succeeds at the current time fails
\* with InvalidTimeStringError, and appends no entry to any line log or
\* protocol, when it is made with a time string that cannot be parsed
\* instead: start, every operation of a started session, and
\* condition_report with any report.
C26_BadTimeRefused ==
    /\ \A i \in generate_observation_id(fs) :
           start(s, fs, i, "current", {}).res = "ok"
               => TimeRefused(start(s, fs, i, BadTime, {}), fs)
    /\ \A m \in TimedCalls :
           TimedCall(m, s, fs, "current").res = "ok"
               => TimeRefused(TimedCall(m, s, fs, BadTime), fs)
    /\ \A r \in ReportInputs :
           Reported(r, Env("current", {})).res = "ok"
               => TimeRefused(Reported(r, Env(BadTime, {})), fs)

----------------------------------------------------------------------------
(* The protocol as a tree.                                                 *)

\* a child of the root that is an entry: an element of a kind of entry with
\* a time and an id attribute
IsEntry(n) ==
    /\ NodeKind(n) # "?"
    /\ n.time # ""
    /\ n.id # ""

\* the protocol of directory d holds one <parameters> element, and every
\* other child of its root is an entry
WellFormed(d) ==
    /\ Len(Parameters(d.aop.kids)) = 1
    /\ \A j \in 1..Len(d.aop.kids) :
           d.aop.kids[j].tag # "parameters" => IsEntry(d.aop.kids[j])

\* the <parameters> element of the protocol of the session holds the str()
\* of every attribute of the object
TreeSnapshotMatches(ss, ff) ==
    /\ Len(Parameters(ff[Sid(ss)].aop.kids)) = 1
    /\ Parameters(ff[Sid(ss)].aop.kids)[1].body = ParametersNode(ss).body

\* C28: every protocol that exists has one root with exactly one
\* <parameters> element, every other child of the root being an entry with
\* time and id attributes; and after every call of start, interrupt, resume,
\* abort, end or condition_report that returns without error, the
\* <parameters> element of the session's protocol holds the attributes the
\* object holds in memory.
C28_TreeShape ==
    /\ [](\A i \in SessionIds : fs[i].aop.ex => WellFormed(fs[i]))
    /\ [][(op' \in Mutating /\ result' = "ok" /\ fs'[Sid(s')].aop.ex)
              => TreeSnapshotMatches(s', fs')]_vars

----------------------------------------------------------------------------
(* The writes of a mutating operation, one by one.                         *)

\* the states of a call of interrupt, resume, abort or end after its checks:
\* the attribute set, then the line of the .aopl written, then the .aol
\* updated, then the .aop rewritten
EventSteps(st, opcode, argument, parameter, assigned_value, tag, body, time, deny) ==
    LET line == WriteToAop(st, opcode, argument, time, deny)
        log == WriteToAol(line, parameter, assigned_value, deny)
    IN  <<st, line, log, XmlAppend(log, tag, body, time, TRUE, deny)>>

\* the states of one block of condition_report: the attribute set, then the
\* .aol updated, then the line of the .aopl written, then the .aop rewritten
FieldSteps(st, applies, attr, val, opcode, argument, tag, time, deny) ==
    IF st.res # "ok" \/ ~applies THEN <<st>>
    ELSE LET v0 == [st EXCEPT !.s[attr] = val]
             log == WriteToAol(v0, attr, val, deny)
             line == WriteToAop(log, opcode, argument, time, deny)
         IN  <<v0, log, line, XmlAppend(line, tag, Text(val), time, TRUE, deny)>>

\* the states a call of a mutating operation goes through, from the state
\* it starts in to the state it returns in
Steps(m, ss, ff, r, time, deny) ==
    CASE m = "interrupt" /\ interrupt(ss, ff, time, deny).res \notin StateErrors \cup {"NameError"} ->
             <<St(ss, ff)>> \o
             EventSteps(St([ss EXCEPT !.interrupted = True], ff), "SEEV",
                        <<"SESSION", "INTERRUPTED">>, "interrupted", True,
                        "interrupt", Empty, time, deny)
      [] m = "resume" /\ resume(ss, ff, time, deny).res \notin StateErrors \cup {"NameError"} ->
             <<St(ss, ff)>> \o
             EventSteps(St([ss EXCEPT !.interrupted = False], ff), "SEEV",
                        <<"SESSION", "RESUMED">>, "interrupted", False,
                        "resume", Empty, time, deny)
      [] m = "abort" /\ abort(ss, ff, "clouds", time, deny).res \notin StateErrors \cup {"NameError"} ->
             <<St(ss, ff)>> \o
             EventSteps(St([ss EXCEPT !.state = Str("aborted")], ff), "SEEV",
                        <<"clouds", ": SESSION", Sid(ss), "ABORTED">>,
                        "state", Str("aborted"),
                        "abort", Text(Str("clouds")), time, deny)
      [] m = "end" /\ end(ss, ff, time, deny).res \notin StateErrors \cup {"NameError"} ->
             <<St(ss, ff)>> \o
             EventSteps(St([ss EXCEPT !.state = Str("ended")], ff), "SEEV",
                        <<"SESSION", Sid(ss), "ENDED">>,
                        "state", Str("ended"), "end", Empty, time, deny)
      [] m = "condition_report" /\ StateCheck(ss) = "ok" ->
             LET d == FieldSteps(St(ss, ff), r.description.t = "str",
                                 "conditionDescription", r.description,
                                 "CDES", <<r.description.v>>,
                                 "condition_description", time, deny)
                 t == FieldSteps(Last(d), r.temp.t \in {"float", "int"},
                                 "temp", r.temp,
                                 "CMES", <<"Temperature:", r.temp.v, "C">>,
                                 "temperature", time, deny)
                 p == FieldSteps(Last(t), r.pressure.t \in {"int", "float"},
                                 "pressure", r.pressure,
                                 "CMES",
                                 <<"Air Pressure:", r.pressure.v, "hPa">>,
                                 "pressure", time, deny)
                 h == FieldSteps(Last(p), r.humidity.t \in {"int", "float"},
                                 "humidity", r.humidity,
                                 "CMES",
                                 <<"Air Humidity:", r.humidity.v, "%">>,
                                 "humidity", time, deny)
             IN  <<St(ss, ff)>> \o d \o t \o p \o h
      [] OTHER -> <<St(ss, ff)>>

\* the state the operation returns in
Outcome(m, ss, ff, r, time, deny) ==
    CASE m = "interrupt" -> interrupt(ss, ff, time, deny)
      [] m = "resume" -> resume(ss, ff, time, deny)
      [] m = "abort" -> abort(ss, ff, "clouds", time, deny)
      [] m = "end" -> end(ss, ff, time, deny)
      [] m = "condition_report" ->
             condition_report(ss, ff, r.description, r.temp, r.pressure,
                              r.humidity, time, deny)

\* the steps of every call end in the state the operation returns in,
\* unless the call fails its checks before the first step
StepsAgree ==
    \A m \in Mutating \ {"start"}, r \in ReportInputs, e \in Envs :
        LET out == Outcome(m, s, fs, r, e.time, e.deny)
            steps == Steps(m, s, fs, r, e.time, e.deny)
        IN  \/ Last(steps) = out
            \/ Len(steps) = 1 /\ out.fs = fs /\ out.s = s /\ out.res # "ok"

\* the .aol and the lines of the .aopl of the session at a step
ParamAt(steps, k) == steps[k].fs[Sid(steps[k].s)].aol.param
LinesAt(steps, k) == LineLog(steps[k].fs[Sid(steps[k].s)])
TreeAt(steps, k) == steps[k].fs[Sid(steps[k].s)].aop.kids

\* whenever a step changes the .aol, the step before it has added the line
\* of the entry to the .aopl; and a step that changes <parameters> in the
\* .aop adds the element of the entry with it
EntryFirst(steps) ==
    \A k \in 2..Len(steps) :
        /\ ParamAt(steps, k) # ParamAt(steps, k - 1) =>
               /\ k > 2
               /\ Len(LinesAt(steps, k - 1)) > Len(LinesAt(steps, k - 2))
        /\ Parameters(TreeAt(steps, k)) # Parameters(TreeAt(steps, k - 1)) =>
               Len(Entries(TreeAt(steps, k)))
                   > Len(Entries(TreeAt(steps, k - 1)))

\* C29: in every call of interrupt, resume, abort, end or condition_report
\* that returns without error, the entry is written to the log before the
\* snapshot is written: no step changes the .aol unless the step before it
\* added the line of the entry to the .aopl, and the .aop gets its new
\* <parameters> together with the element of the entry.
C29_EntryBeforeSnapshot ==
    \A m \in Mutating \ {"start"}, r \in ReportInputs :
        LET steps == Steps(m, s, fs, r, "current", {})
        IN  Last(steps).res = "ok" => EntryFirst(steps)

----------------------------------------------------------------------------
(* The order of the checks.                                                *)

\* calls with an argument that is not valid: a severity that is not known,
\* a right ascension out of range, a frame type that is not known, targets
\* that are no list
InvalidCalls == {"issue", "point_to_coords", "take_frame", "point_to_name"}
InvalidCall(m, ss, ff) ==
    CASE m = "issue" ->
             issue(ss, ff, "critical", "dew on lens", "current", {})
      [] m = "point_to_coords" ->
             point_to_coords(ss, ff, Num("float", "24.0", 240),
                             Num("float", "45.0", 450), "current", {})
      [] m = "take_frame" ->
             take_frame(ss, ff, IntVal("1"), Str("light"), IntVal("800"),
                        FloatVal("30.0"), FloatVal("5.6"), "current", {})
      [] m = "point_to_name" ->
             point_to_name(ss, ff, Str("M31"), "current", {})

\* C30: on a session that is not running, a call of issue, point_to_coords,
\* take_frame or point_to_name with an argument that is not valid fails with
\* the error of the state (SessionStateError or one of its subclasses), not
\* with ValueError or TypeError, and changes neither the object nor a file.
C30_StateCheckedFirst ==
    StateCheck(s) # "ok" =>
        \A m \in InvalidCalls :
            /\ InvalidCall(m, s, fs).res \in StateErrors
            /\ InvalidCall(m, s, fs).fs = fs
            /\ InvalidCall(m, s, fs).s = s

\* a call on a session that has ended or was aborted has failed with
\* SessionStateError
C30_RefusedAfterEnd ==
    /\ op \in InvalidCalls
    /\ result = "SessionStateError"
    /\ Terminal(s)

----------------------------------------------------------------------------
(* Interruption.                                                           *)

\* the operations that log or terminate; interrupt and resume are the two
\* that read the interrupted flag
Unblocked == TimedCalls \ {"interrupt", "resume"}

\* the object as it would be with the interrupted flag not set
Uninterrupted(ss) == [ss EXCEPT !.interrupted = False]

\* the session's directory and its three files are there
Persisted(ss, ff) ==
    /\ ff[Sid(ss)].dir
    /\ ff[Sid(ss)].aopl.ex
    /\ ff[Sid(ss)].aol.ex
    /\ ff[Sid(ss)].aop.ex

\* two calls raise the same, leave the same entries in every log and the same
\* .aol, and leave the same attributes but for the interrupted flag
SameEffect(a, b) ==
    /\ a.res = b.res
    /\ Logs(a.fs) = Logs(b.fs)
    /\ \A i \in SessionIds : a.fs[i].aol = b.fs[i].aol
    /\ Uninterrupted(a.s) = Uninterrupted(b.s)

\* C31: while the session is running and interrupted, comment, issue,
\* point_to_name, point_to_coords, take_frame,
\* report_variable_star_observation, abort, end and condition_report do what
\* they do when the session is not interrupted: the same result, the same
\* entries, the same attributes but for the flag itself; and they succeed
\* when the files of the session are there.
C31_InterruptedDoesNotBlock ==
    (~Unstarted(s) /\ s.state = Running /\ Truthy(s.interrupted)) =>
        /\ \A m \in Unblocked :
               /\ SameEffect(TimedCall(m, s, fs, "current"),
                             TimedCall(m, Uninterrupted(s), fs, "current"))
               /\ Persisted(s, fs) => TimedCall(m, s, fs, "current").res = "ok"
        /\ \A r \in ReportInputs :
               /\ SameEffect(
                      condition_report(s, fs, r.description, r.temp,
                                       r.pressure, r.humidity, "current", {}),
                      condition_report(Uninterrupted(s), fs, r.description,
                                       r.temp, r.pressure, r.humidity,
                                       "current", {}))
               /\ Persisted(s, fs) => Reported(r, Env("current", {})).res = "ok"

\* abort has succeeded on a session that was interrupted
C31_AbortedWhileInterrupted ==
    /\ op = "abort"
    /\ result = "ok"
    /\ Truthy(s.interrupted)
    /\ LineKinds(fs[Sid(s)])
           = <<"SessionStarted", "SessionInterrupted", "SessionAborted">>

----------------------------------------------------------------------------
(* Entries with a time of their own.                                       *)

\* the last line and the last element a call has left in the logs of the
\* session
LastLine(out) == Last(LineLog(out.fs[Sid(out.s)]))
LastNode(out) == Last(TreeLog(out.fs[Sid(out.s)]))

\* the entry a call has appended holds, in the .aopl and in the .aop, the
\* Julian Date of the time given and an id made from that time
StampedWith(out, time) ==
    /\ LastLine(out).jd = current_jd(time).v
    /\ LastLine(out).id = create_entry_id(time).v
    /\ LastNode(out).time = current_jd(time).v
    /\ LastNode(out).id = create_entry_id(time).v

\* C32: a call made with a time string of its own that returns without
\* error has appended an entry that holds, in the line log and in the
\* protocol, the Julian Date of that time and an entry id whose timestamp is
\* that time, not the current time: for start, for every operation of a
\* started session and for condition_report.
C32_EntryCarriesGivenTime ==
    /\ \A i \in generate_observation_id(fs) :
           start(s, fs, i, IsoTime, {}).res = "ok"
               => StampedWith(start(s, fs, i, IsoTime, {}), IsoTime)
    /\ \A m \in TimedCalls :
           TimedCall(m, s, fs, IsoTime).res = "ok"
               => StampedWith(TimedCall(m, s, fs, IsoTime), IsoTime)
    /\ \A r \in ReportInputs :
           (Reported(r, Env(IsoTime, {})).res = "ok" /\ Supplied(r) # {})
               => StampedWith(Reported(r, Env(IsoTime, {})), IsoTime)

----------------------------------------------------------------------------
(* The entries of a session and its attributes.                            *)

\* the kinds of entries that close a session
TerminalKinds == {"SessionAborted", "SessionEnded"}

\* the positions of a log that hold an entry of one of the kinds
Positions(kinds, of) == {j \in 1..Len(kinds) : kinds[j] \in of}

\* a log holds a SessionAborted entry iff the state is aborted, a
\* SessionEnded entry iff the state is ended, at most one of the two, and
\* that one as its last entry
TerminalAgrees(kinds, ss) ==
    /\ Positions(kinds, {"SessionAborted"}) # {} <=> ss.state = Str("aborted")
    /\ Positions(kinds, {"SessionEnded"}) # {} <=> ss.state = Str("ended")
    /\ Cardinality(Positions(kinds, TerminalKinds)) <= 1
    /\ Positions(kinds, TerminalKinds) \subseteq {Len(kinds)}

\* C33: in every reachable state in which the session has a line log and a
\* protocol, each of the two holds a SessionAborted entry if and only if the
\* state of the object is aborted and a SessionEnded entry if and only if it
\* is ended; it holds at most one such entry, and that entry is its last.
C33_TerminalEntryIffTerminal ==
    (~Unstarted(s) /\ Persisted(s, fs)) =>
        /\ TerminalAgrees(LineKinds(fs[Sid(s)]), s)
        /\ TerminalAgrees(TreeKinds(fs[Sid(s)]), s)

\* the SessionInterrupted and SessionResumed entries of a log, in its order
Pauses(kinds) ==
    SelectSeq(kinds,
              LAMBDA k : k \in {"SessionInterrupted", "SessionResumed"})

\* the entries alternate, the first being SessionInterrupted
Alternates(pauses) ==
    \A j \in 1..Len(pauses) :
        pauses[j] = IF j % 2 = 1 THEN "SessionInterrupted"
                    ELSE "SessionResumed"

\* the flag is set iff the last of the entries is SessionInterrupted
FlagAgrees(pauses, ss) ==
    Truthy(ss.interrupted) <=>
        (pauses # <<>> /\ Last(pauses) = "SessionInterrupted")

\* C34: in every reachable state in which the session has a line log and a
\* protocol, the SessionInterrupted and SessionResumed entries of each
\* alternate, starting with SessionInterrupted, and the interrupted flag of
\* the object is set if and only if the last of them is SessionInterrupted.
C34_PausesAlternate ==
    (~Unstarted(s) /\ Persisted(s, fs)) =>
        /\ Alternates(Pauses(LineKinds(fs[Sid(s)])))
        /\ Alternates(Pauses(TreeKinds(fs[Sid(s)])))
        /\ FlagAgrees(Pauses(LineKinds(fs[Sid(s)])), s)
        /\ FlagAgrees(Pauses(TreeKinds(fs[Sid(s)])), s)

----------------------------------------------------------------------------
(* Calls that fail.                                                        *)

\* the attributes a failed call is to leave alone: the state, the
\* interrupted flag and the condition fields
Guarded == {"state", "interrupted"} \cup ConditionAttrs

\* C35: a call of an operation other than start that raises an exception,
\* whatever the exception (of the state, of an argument, of the time string,
\* of a file), leaves the state, the interrupted flag and the condition
\* fields of the object as they were before the call.
C35_FailedCallKeepsMemory ==
    [][(op' # "start" /\ result' # "ok") =>
           \A k \in Guarded : s'[k] = s[k]]_vars

\* the files of the sessions: the .aopl, the .aol and the .aop of every
\* directory
SessionFiles(ff) ==
    [i \in SessionIds |-> <<ff[i].aopl, ff[i].aol, ff[i].aop>>]

\* C36: a call of start on a session not yet started that raises an
\* exception (a file of the session exists already, the time string does not
\* parse, a file cannot be written) leaves the object not started, with
\* started False, state None and obsID None, and leaves no file of a session
\* that was not there before; a later call is refused as one on a session
\* not started.
C36_FailedStartLeavesNothing ==
    [][(op' = "start" /\ result' # "ok" /\ Unstarted(s)) =>
           /\ s'.started = False
           /\ s'.state = None
           /\ s'.obsID = None
           /\ SessionFiles(fs') = SessionFiles(fs)
           /\ StateCheck(s') # "ok"]_vars

\* a start has failed on its time string and left an object that is started
\* and a line log without entry
C36_HalfStarted ==
    /\ op = "start"
    /\ result = "InvalidTimeStringError"
    /\ calls = 1
    /\ ~Unstarted(s)
    /\ fs[Sid(s)].aopl.ex
    /\ LineLog(fs[Sid(s)]) = <<>>
    /\ ~fs[Sid(s)].aop.ex

----------------------------------------------------------------------------
(* The two logs of a session.                                              *)

\* the line log and the protocol of the session hold entries of the same
\* kinds in the same order
LogsAgree(ss, ff) == LineKinds(ff[Sid(ss)]) = TreeKinds(ff[Sid(ss)])

\* C37: after every call that returns without error, the line log and the
\* protocol of the session hold the same number of entries, of the same
\* kinds in the same order.
C37_LogsAgree ==
    [][(op' \in EntryOps \cup Mutating /\ result' = "ok")
           => LogsAgree(s', fs')]_vars

----------------------------------------------------------------------------
(* The operations that only log.                                           *)

\* the operations that change no attribute
PureOps == {"comment", "issue", "point_to_name", "point_to_coords",
            "take_frame", "report_variable_star_observation"}

\* the snapshots kept in the files: the .aol and the <parameters> elements
\* of the .aop of every directory
Snapshots(ff) ==
    [i \in SessionIds |-> <<ff[i].aol, Parameters(ff[i].aop.kids)>>]

\* C38: a call of comment, issue, point_to_name, point_to_coords, take_frame
\* or report_variable_star_observation, whether it returns or raises, leaves
\* every attribute of the object, state, interrupted and obsID included, as
\* it was, and leaves the .aol and the <parameters> element of the protocol
\* as they were.
C38_LoggingKeepsSnapshot ==
    [][op' \in PureOps =>
           /\ s' = s
           /\ Snapshots(fs') = Snapshots(fs)]_vars

\* take_frame has logged a frame in a session whose attributes the files do
\* not hold: the interrupted flag is set in memory and not in the files
C38_FrameLogged ==
    /\ op = "take_frame"
    /\ result = "ok"
    /\ NodeKind(Last(TreeLog(fs[Sid(s)]))) = "Frame"
    /\ Truthy(s.interrupted)
    /\ fs[Sid(s)].aol.param.interrupted = False

====
